---- MODULE Spec2Model ----
(***************************************************************************)
(* Session orchestrator of claude-squad (services/session): the lifecycle  *)
(* operations CreateSession, StartSession/ResumeSession, PauseSession and  *)
(* StopSession, the status-promotion goroutine spawned by CreateSession,   *)
(* UpdateSessionStatus, GetSession, and the JSON storage repository they   *)
(* write through.                                                          *)
(*                                                                         *)
(* The Workspace Service (git.GitService) and the Process Backend          *)
(* (tmux.TmuxService) are the orchestrator's external collaborators: each  *)
(* is a set of live resources, and every call on them either succeeds with *)
(* its effect or fails without one.  A lifecycle operation is a sequence   *)
(* of steps, one per external call, because the orchestrator holds no lock *)
(* across those calls; UpdateSessionStatus is one step because it holds    *)
(* o.mu from its first to its last statement.                              *)
(*                                                                         *)
(* Time is a clock of whole seconds: time.Now() reads it, and               *)
(* generateSessionID uses its Unix value.                                   *)
(***************************************************************************)
EXTENDS Integers, Sequences, FiniteSets, Bags, TLC

\* ---------------------------------------------------------------- bounds
MaxClock == 2
MaxCreates == 1
NumCallers == 2
NumExecCallers == 3
MaxConcurrent == 2
RetryCount == 2
MaxHandles == 3
MaxNewlines == 2
ShortPad == 4
LongPad == 19

\* ------------------------------------------------------ program constants
StatusRunning == 0
StatusReady == 1
StatusLoading == 2
StatusPaused == 3
PromotionDelay == 2

\* ------------------------------------------------------------ input sets
Titles == {"", "a"}
Paths == {"", "repo", "plain"}
GitRepos == {"repo"}
ReqBranches == {"", "feat"}
CurrentBranch == "main"
Prompts == {"", "go"}
Programs == {"claude"}

Callers == 1..NumCallers
Clock == 0..MaxClock

CreateSessionRequest ==
  [Title : Titles, Path : Paths, Branch : ReqBranches, Program : Programs,
   Height : {24}, Width : {80}, AutoYes : {FALSE}, Prompt : Prompts]

\* generateSessionID: fmt.Sprintf("%s-%d", title, time.Now().Unix())
generateSessionID(title, t) == <<title, t>>

\* worktreePath := fmt.Sprintf("%s-worktree-%s", req.Path, sessionID)
WorktreePath(path, id) == <<path, "worktree", id>>

NoSession == [ID |-> <<>>]
NoRequest == [Title |-> "none"]

VARIABLES
  now,          \* the wall clock, in seconds
  sessions,     \* orchestratorImpl.sessions: the in-memory cache, ID -> Session
  files,        \* jsonRepository: the <id>.json files, ID -> SessionData
  worktrees,    \* Workspace Service: paths of the live worktrees
  tmuxSessions, \* Process Backend: names of the live sessions
  timers,       \* promotion goroutines that have not run yet (a bag)
  th,           \* one record per caller: the operation it is in
  active,       \* the callers that issue operations
  ncreate,      \* CreateSession calls that allocated an ID
  known,        \* the IDs allocated so far: the IDs a caller can name
  last          \* per caller: <<op, ID>> of its latest call if that was a Paired one, or <<>>

\* execImpl (the CommandExecutor)
VARIABLES
  sem,          \* e.concurrentSem: the number of tokens in the channel
  ecall,        \* one record per caller of the executor: the call it is in
  streams,      \* ExecuteStreaming goroutines: processes running / exited, not yet released
  opts,         \* e.opts: the ExecutorOptions the executor was built with
  ch,           \* outputCh of one ExecuteStreaming call: the Outputs buffered in the channel
  sg,           \* that call's goroutines, its process, its context and its consumer
  runningProcs, \* e.runningProcs: handle -> info.state of the process table
  handles,      \* the handles Start has returned, and their processes
  tret,         \* what the last process-table operation returned
  panes,        \* what tmux capture-pane returns for each session, as a sequence of characters
  dm,           \* the Daemon: d.sessions and the position of its goroutine
  newlines      \* newlines the Daemon has submitted to each session since its pane last changed

execVars == <<sem, ecall, streams, opts>>

streamVars == <<ch, sg>>
tableVars == <<runningProcs, handles, tret>>
daemonVars == <<panes, dm, newlines>>

\* every variable that is not the orchestrator's
otherVars == <<execVars, streamVars, tableVars, daemonVars>>

vars == <<now, sessions, files, worktrees, tmuxSessions, timers, th, active, ncreate, known, last,
          sem, ecall, streams, opts, ch, sg, runningProcs, handles, tret,
          panes, dm, newlines>>

\* ------------------------------------------------------------- helpers
Put(f, k, v) == [x \in (DOMAIN f) \cup {k} |-> IF x = k THEN v ELSE f[x]]
Drop(f, k) == [x \in (DOMAIN f) \ {k} |-> f[x]]
EmptyMap == [x \in {} |-> x]

Idle ==
  [pc |-> "idle", op |-> "none", req |-> NoRequest, id |-> <<>>,
   branch |-> "", wpath |-> <<>>, session |-> NoSession,
   calls |-> <<>>, ret |-> "none", again |-> FALSE,
   preCache |-> {}, preFiles |-> {}]

\* the external calls an operation has made so far, in order
Call(t, svc, arg, ok) == Append(th[t].calls, [svc |-> svc, arg |-> arg, ok |-> ok])

\* ------------------------------------------------- Persistence Service
\* jsonRepository.Create: refuses an existing file, stamps CreatedAt and
\* UpdatedAt with its own time.Now(), writes the file.
StorageCreateOK(id) == id \notin DOMAIN files
StorageCreate(data, t) ==
  Put(files, data.ID, [data EXCEPT !.CreatedAt = t, !.UpdatedAt = t])

\* jsonRepository.Get
StorageGetOK(id) == id \in DOMAIN files

\* jsonRepository.UpdateStatus: Get, set Status and UpdatedAt, Update
StorageUpdateStatus(id, status, t) ==
  Put(files, id, [files[id] EXCEPT !.Status = status, !.UpdatedAt = t])

\* jsonRepository.Delete
StorageDeleteOK(id) == id \in DOMAIN files
StorageDelete(id) == Drop(files, id)

\* storage.SessionData built from a Session, and back (CreateSession,
\* GetSession, NewOrchestrator copy the twelve fields one by one)
ToSessionData(s) ==
  [ID |-> s.ID, Title |-> s.Title, Path |-> s.Path, Branch |-> s.Branch,
   Status |-> s.Status, Program |-> s.Program, Height |-> s.Height,
   Width |-> s.Width, CreatedAt |-> s.CreatedAt, UpdatedAt |-> s.UpdatedAt,
   AutoYes |-> s.AutoYes, Prompt |-> s.Prompt]

FromSessionData(d) ==
  [ID |-> d.ID, Title |-> d.Title, Path |-> d.Path, Branch |-> d.Branch,
   Status |-> d.Status, Program |-> d.Program, Height |-> d.Height,
   Width |-> d.Width, CreatedAt |-> d.CreatedAt, UpdatedAt |-> d.UpdatedAt,
   AutoYes |-> d.AutoYes, Prompt |-> d.Prompt]

\* ------------------------------------------------------------ executor
ExecCallers == 1..NumExecCallers

\* ExecutorOptions.RetryOnErrors, and the exit codes of the programs run
RetryOnErrors == {1}
ProgramExitCodes == {0, 1, 2}

\* the exit code Execute records when Run's error is no *exec.ExitError
NotAnExitError == -1

\* outputCh := make(chan Output, 100)
OutputBuffer == 100

\* WaitStatus.ExitStatus() of a process that was killed by a signal
KilledExitStatus == -1

\* log: the exit code of every attempt made so far; stdout: the attempts
\* whose output is in the buffers of lines 726-730; err: what the last
\* execCmd.Run() returned, which becomes Result.Error
ExecIdle ==
  [pc |-> "idle", kind |-> "none", code |-> 0, attempt |-> 0, started |-> FALSE,
   exitCode |-> 0, runs |-> 0, ret |-> "none", log |-> <<>>, stdout |-> {},
   timedOut |-> FALSE, err |-> "nil"]

\* the handles Start can return
Handles == 1..MaxHandles

\* NewDaemon: no session in d.sessions, stopCh open, Run and Stop not
\* called yet. pc is the position of the monitoring goroutine, run that
\* of Run, stop that of a caller of Stop; inflight tells whether a tick
\* was in progress when Run began to shut down.
NewDaemon ==
  [pc |-> "new", sessions |-> EmptyMap, queue |-> <<>>, cur |-> <<>>, failed |-> FALSE,
   run |-> "new", stop |-> "none", stopCh |-> "open", ctx |-> "live", inflight |-> FALSE]

NoDaemon ==
  /\ panes = EmptyMap
  /\ dm = NewDaemon
  /\ newlines = EmptyMap

\* a handle Start has not returned yet
NoHandle == [proc |-> "none", killed |-> FALSE, waited |-> FALSE]

\* the stream that is followed step by step: not started yet
NoStream ==
  [pc |-> "none", rd |-> [stdout |-> "none", stderr |-> "none"], proc |-> "none",
   ctx |-> "live", consumer |-> "reading", closed |-> FALSE,
   chunks |-> FALSE, exits |-> 0, afterExit |-> FALSE, closedSeen |-> FALSE]

\* NewExecutor: an empty semaphore channel of capacity MaxConcurrent
NewExecutor ==
  /\ sem = 0
  /\ ecall = [p \in ExecCallers |-> ExecIdle]
  /\ streams = [running |-> 0, exited |-> 0]
  /\ opts = [RetryCount |-> RetryCount]
  /\ ch = <<>>
  /\ sg = NoStream
  /\ runningProcs = EmptyMap
  /\ handles = [h \in Handles |-> NoHandle]
  /\ tret = [op |-> "none", h |-> 0, val |-> {}, err |-> "nil"]

\* ---------------------------------------------------------------- Init
Init ==
  /\ now = 0
  /\ sessions = EmptyMap
  /\ files = EmptyMap
  /\ worktrees = {}
  /\ tmuxSessions = {}
  /\ timers = EmptyBag
  /\ th = [t \in Callers |-> Idle]
  /\ active = {1}
  /\ ncreate = 0
  /\ known = {}
  /\ last = [t \in Callers |-> <<>>]
  /\ NewExecutor
  /\ NoDaemon

\* the clock advances
Tick ==
  /\ now < MaxClock
  /\ now' = now + 1
  /\ UNCHANGED <<sessions, files, worktrees, tmuxSessions, timers, th, active, ncreate, known, last, otherVars>>

\* ------------------------------------------------ orchestrator helpers
Min(a, b) == IF a < b THEN a ELSE b

Done(t, r) == [th EXCEPT ![t].pc = "done", ![t].ret = r]

\* orchestratorImpl.GetSession: the cache entry if there is one, else the
\* record loaded from storage, which is then cached.
GetSession(id, found) ==
  \/ /\ id \in DOMAIN sessions
     /\ found = TRUE
     /\ sessions' = sessions
  \/ /\ id \notin DOMAIN sessions
     /\ \/ /\ StorageGetOK(id)
           /\ found = TRUE
           /\ sessions' = Put(sessions, id, FromSessionData(files[id]))
        \/ /\ found = FALSE
           /\ sessions' = sessions

\* orchestratorImpl.UpdateSessionStatus, under o.mu from start to end: the
\* cache entry is written first, then storage.UpdateStatus is called and
\* its error returned.
UpdateSessionStatus(id, status, res) ==
  \/ /\ id \notin DOMAIN sessions
     /\ res = "session not found"
     /\ UNCHANGED <<sessions, files, now>>
  \/ /\ id \in DOMAIN sessions
     /\ sessions' = Put(sessions, id,
                        [sessions[id] EXCEPT !.Status = status, !.UpdatedAt = now])
     /\ \/ /\ StorageGetOK(id)
           /\ res = "ok"
           /\ \E t \in now..Min(now + 1, MaxClock) :
                /\ files' = StorageUpdateStatus(id, status, t)
                /\ now' = t
        \/ /\ res = "storage update failed"
           /\ UNCHANGED <<files, now>>

UpdateResults == {"ok", "session not found", "storage update failed"}

\* ------------------------------------------------------- CreateSession
\* the bound on CreateSession calls: MaxCreates calls per caller get as far
\* as generateSessionID; a request that cannot get there is always allowed
CanCreate(r) ==
  \/ ncreate < MaxCreates * Cardinality(active)
  \/ r.Title = "" \/ r.Path = "" \/ r.Path \notin GitRepos

\* a CreateSession without the checks of lines 68-73
BeginCreateUnvalidated(t, r) ==
  /\ t \in active
  /\ th[t].pc = "idle"
  /\ CanCreate(r)
  /\ th' = [th EXCEPT ![t] = [Idle EXCEPT !.op = "CreateSession", !.req = r, !.pc = "c_isrepo",
                                          !.preCache = DOMAIN sessions, !.preFiles = DOMAIN files]]
  /\ UNCHANGED <<now, sessions, files, worktrees, tmuxSessions, timers, active, ncreate, known, last, otherVars>>

\* lines 66-82: validation, then gitService.IsGitRepository
BeginCreate(t, r) ==
  /\ t \in active
  /\ th[t].pc = "idle"
  /\ CanCreate(r)
  /\ LET b == [Idle EXCEPT !.op = "CreateSession", !.req = r,
                           !.preCache = DOMAIN sessions, !.preFiles = DOMAIN files]
     IN  \/ /\ r.Title = ""
            /\ th' = [th EXCEPT ![t] = [b EXCEPT !.pc = "done", !.ret = "session title is required"]]
         \/ /\ r.Title # "" /\ r.Path = ""
            /\ th' = [th EXCEPT ![t] = [b EXCEPT !.pc = "done", !.ret = "session path is required"]]
         \/ /\ r.Title # "" /\ r.Path # ""
            /\ th' = [th EXCEPT ![t] = [b EXCEPT !.pc = "c_isrepo"]]
  /\ UNCHANGED <<now, sessions, files, worktrees, tmuxSessions, timers, active, ncreate, known, last, otherVars>>

\* lines 75-85: the repository check, then generateSessionID
CreateIsRepo(t) ==
  /\ th[t].pc = "c_isrepo"
  /\ \/ th' = [th EXCEPT ![t].pc = "done", ![t].ret = "failed to check git repository",
                         ![t].calls = Call(t, "git.IsGitRepository", th[t].req.Path, FALSE)]
     \/ /\ th[t].req.Path \notin GitRepos
        /\ th' = [th EXCEPT ![t].pc = "done", ![t].ret = "path is not a git repository",
                            ![t].calls = Call(t, "git.IsGitRepository", th[t].req.Path, TRUE)]
     \/ /\ th[t].req.Path \in GitRepos
        /\ th' = [th EXCEPT ![t].pc = "c_branch",
                            ![t].id = generateSessionID(th[t].req.Title, now),
                            ![t].calls = Call(t, "git.IsGitRepository", th[t].req.Path, TRUE)]
  /\ ncreate' = IF th'[t].pc = "c_branch" THEN ncreate + 1 ELSE ncreate
  /\ known' = IF th'[t].pc = "c_branch" THEN known \cup {th'[t].id} ELSE known
  /\ UNCHANGED <<now, sessions, files, worktrees, tmuxSessions, timers, active, last, otherVars>>

\* lines 87-99: CreateBranch when a branch is requested, else GetCurrentBranch
CreateBranch(t) ==
  /\ th[t].pc = "c_branch"
  /\ IF th[t].req.Branch # ""
     THEN \/ th' = [th EXCEPT ![t].pc = "c_worktree", ![t].branch = th[t].req.Branch,
                              ![t].calls = Call(t, "git.CreateBranch", th[t].req.Branch, TRUE)]
          \/ th' = [th EXCEPT ![t].pc = "done", ![t].ret = "failed to create branch",
                              ![t].calls = Call(t, "git.CreateBranch", th[t].req.Branch, FALSE)]
     ELSE \/ th' = [th EXCEPT ![t].pc = "c_worktree", ![t].branch = CurrentBranch,
                              ![t].calls = Call(t, "git.GetCurrentBranch", th[t].req.Path, TRUE)]
          \/ th' = [th EXCEPT ![t].pc = "done", ![t].ret = "failed to get current branch",
                              ![t].calls = Call(t, "git.GetCurrentBranch", th[t].req.Path, FALSE)]
  /\ UNCHANGED <<now, sessions, files, worktrees, tmuxSessions, timers, active, ncreate, known, last, otherVars>>

\* the error of gitService.CreateWorktree not checked
CreateWorktreeUnchecked(t) ==
  /\ th[t].pc = "c_worktree"
  /\ LET wp == WorktreePath(th[t].req.Path, th[t].id)
     IN  \/ /\ wp \notin worktrees
            /\ worktrees' = worktrees \cup {wp}
            /\ th' = [th EXCEPT ![t].pc = "c_tmux", ![t].wpath = wp,
                                ![t].calls = Call(t, "git.CreateWorktree", wp, TRUE)]
         \/ /\ worktrees' = worktrees
            /\ th' = [th EXCEPT ![t].pc = "c_tmux", ![t].wpath = wp,
                                ![t].calls = Call(t, "git.CreateWorktree", wp, FALSE)]
  /\ UNCHANGED <<now, sessions, files, tmuxSessions, timers, active, ncreate, known, last, otherVars>>

\* lines 101-106: gitService.CreateWorktree at the derived path
CreateWorktree(t) ==
  /\ th[t].pc = "c_worktree"
  /\ LET wp == WorktreePath(th[t].req.Path, th[t].id)
     IN  \/ /\ wp \notin worktrees
            /\ worktrees' = worktrees \cup {wp}
            /\ th' = [th EXCEPT ![t].pc = "c_tmux", ![t].wpath = wp,
                                ![t].calls = Call(t, "git.CreateWorktree", wp, TRUE)]
         \/ /\ worktrees' = worktrees
            /\ th' = [th EXCEPT ![t].pc = "done", ![t].ret = "failed to create worktree",
                                ![t].calls = Call(t, "git.CreateWorktree", wp, FALSE)]
  /\ UNCHANGED <<now, sessions, files, tmuxSessions, timers, active, ncreate, known, last, otherVars>>

\* lines 116-130: the Session object of a new session
NewSession(t) ==
  [ID |-> th[t].id, Title |-> th[t].req.Title, Path |-> th[t].wpath,
   Branch |-> th[t].branch, Status |-> StatusLoading,
   Program |-> th[t].req.Program, Height |-> th[t].req.Height,
   Width |-> th[t].req.Width, CreatedAt |-> now, UpdatedAt |-> now,
   AutoYes |-> th[t].req.AutoYes, Prompt |-> th[t].req.Prompt]

\* lines 108-130: tmuxService.CreateSession; on failure the worktree is to
\* be removed
CreateTmux(t) ==
  /\ th[t].pc = "c_tmux"
  /\ \/ /\ th[t].id \notin tmuxSessions
        /\ tmuxSessions' = tmuxSessions \cup {th[t].id}
        /\ th' = [th EXCEPT ![t].pc = IF th[t].req.Prompt # "" THEN "c_prompt" ELSE "c_store",
                            ![t].session = NewSession(t),
                            ![t].calls = Call(t, "tmux.CreateSession", th[t].id, TRUE)]
     \/ /\ tmuxSessions' = tmuxSessions
        /\ th' = [th EXCEPT ![t].pc = "c_undo_worktree",
                            ![t].calls = Call(t, "tmux.CreateSession", th[t].id, FALSE)]
  /\ UNCHANGED <<now, sessions, files, worktrees, timers, active, ncreate, known, last, otherVars>>

\* a failed tmuxService.CreateSession returned without the rollback
CreateUndoWorktreeSkipped(t) ==
  /\ th[t].pc = "c_undo_worktree"
  /\ th' = [th EXCEPT ![t].pc = "done", ![t].ret = "failed to create tmux session"]
  /\ UNCHANGED <<now, sessions, files, worktrees, tmuxSessions, timers, active, ncreate, known, last, otherVars>>

\* lines 111-113: the rollback after a failed tmuxService.CreateSession
CreateUndoWorktree(t) ==
  /\ th[t].pc = "c_undo_worktree"
  /\ \/ /\ worktrees' = worktrees \ {th[t].wpath}
        /\ th' = [th EXCEPT ![t].pc = "done", ![t].ret = "failed to create tmux session",
                            ![t].calls = Call(t, "git.RemoveWorktree", [path |-> th[t].wpath, force |-> TRUE], TRUE)]
     \/ /\ worktrees' = worktrees
        /\ th' = [th EXCEPT ![t].pc = "done", ![t].ret = "failed to create tmux session",
                            ![t].calls = Call(t, "git.RemoveWorktree", [path |-> th[t].wpath, force |-> TRUE], FALSE)]
  /\ UNCHANGED <<now, sessions, files, tmuxSessions, timers, active, ncreate, known, last, otherVars>>

\* lines 132-138: the initial prompt; a failure is only printed
CreatePrompt(t) ==
  /\ th[t].pc = "c_prompt"
  /\ \E ok \in BOOLEAN :
       th' = [th EXCEPT ![t].pc = "c_store", ![t].calls = Call(t, "tmux.SendKeys", th[t].id, ok)]
  /\ UNCHANGED <<now, sessions, files, worktrees, tmuxSessions, timers, active, ncreate, known, last, otherVars>>

\* lines 140-160: storage.Create
CreateStore(t) ==
  /\ th[t].pc = "c_store"
  /\ \/ /\ StorageCreateOK(th[t].id)
        /\ files' = StorageCreate(ToSessionData(th[t].session), now)
        /\ th' = [th EXCEPT ![t].pc = "c_cache",
                            ![t].calls = Call(t, "storage.Create", th[t].id, TRUE)]
     \/ /\ files' = files
        /\ th' = [th EXCEPT ![t].pc = "c_undo_tmux",
                            ![t].calls = Call(t, "storage.Create", th[t].id, FALSE)]
  /\ UNCHANGED <<now, sessions, worktrees, tmuxSessions, timers, active, ncreate, known, last, otherVars>>

\* a rollback that forgets the tmux session
CreateUndoTmuxSkipped(t) ==
  /\ th[t].pc = "c_undo_tmux"
  /\ th' = [th EXCEPT ![t].pc = "c_undo_both"]
  /\ UNCHANGED <<now, sessions, files, worktrees, tmuxSessions, timers, active, ncreate, known, last, otherVars>>

\* line 157: rollback of the tmux session after a failed storage.Create
CreateUndoTmux(t) ==
  /\ th[t].pc = "c_undo_tmux"
  /\ \/ /\ tmuxSessions' = tmuxSessions \ {th[t].id}
        /\ th' = [th EXCEPT ![t].pc = "c_undo_both",
                            ![t].calls = Call(t, "tmux.KillSession", th[t].id, TRUE)]
     \/ /\ tmuxSessions' = tmuxSessions
        /\ th' = [th EXCEPT ![t].pc = "c_undo_both",
                            ![t].calls = Call(t, "tmux.KillSession", th[t].id, FALSE)]
  /\ UNCHANGED <<now, sessions, files, worktrees, timers, active, ncreate, known, last, otherVars>>

\* lines 158-159: rollback of the worktree after a failed storage.Create
CreateUndoBoth(t) ==
  /\ th[t].pc = "c_undo_both"
  /\ \/ /\ worktrees' = worktrees \ {th[t].wpath}
        /\ th' = [th EXCEPT ![t].pc = "done", ![t].ret = "failed to save session",
                            ![t].calls = Call(t, "git.RemoveWorktree", [path |-> th[t].wpath, force |-> TRUE], TRUE)]
     \/ /\ worktrees' = worktrees
        /\ th' = [th EXCEPT ![t].pc = "done", ![t].ret = "failed to save session",
                            ![t].calls = Call(t, "git.RemoveWorktree", [path |-> th[t].wpath, force |-> TRUE], FALSE)]
  /\ UNCHANGED <<now, sessions, files, tmuxSessions, timers, active, ncreate, known, last, otherVars>>

\* lines 162-173: cache the session, spawn the promotion goroutine, return
CreateCache(t) ==
  /\ th[t].pc = "c_cache"
  /\ sessions' = Put(sessions, th[t].id, th[t].session)
  /\ timers' = timers (+) SetToBag({[id |-> th[t].id, due |-> now + PromotionDelay]})
  /\ th' = Done(t, "ok")
  /\ UNCHANGED <<now, files, worktrees, tmuxSessions, active, ncreate, known, last, otherVars>>

\* the goroutine's update left out: it wakes up and does nothing
PromotionTimerIdle(tm) ==
  /\ BagIn(tm, timers)
  /\ now >= Min(tm.due, MaxClock)
  /\ timers' = timers (-) SetToBag({tm})
  /\ UNCHANGED <<now, sessions, files, worktrees, tmuxSessions, th, active, ncreate, known, last, otherVars>>

\* lines 168-171: the goroutine wakes up and calls UpdateSessionStatus.
\* The clock stops at MaxClock, which stands for every later time too: a
\* goroutine due after MaxClock wakes up while the clock reads MaxClock.
PromotionTimer(tm) ==
  /\ BagIn(tm, timers)
  /\ now >= Min(tm.due, MaxClock)
  /\ timers' = timers (-) SetToBag({tm})
  /\ \E res \in UpdateResults : UpdateSessionStatus(tm.id, StatusReady, res)
  /\ UNCHANGED <<worktrees, tmuxSessions, th, active, ncreate, known, last, otherVars>>

\* ---------------------------------------- StartSession / ResumeSession
Begin(op, id) ==
  [Idle EXCEPT !.op = op, !.id = id,
               !.preCache = DOMAIN sessions, !.preFiles = DOMAIN files]

\* a StartSession that checks the status only after recreating the worktree
BeginStartCheckedLate(t, op, id) ==
  /\ t \in active
  /\ th[t].pc = "idle"
  /\ \E found \in BOOLEAN :
       /\ GetSession(id, found)
       /\ IF ~found
          THEN /\ th' = [th EXCEPT ![t] = [Begin(op, id) EXCEPT !.pc = "done",
                                                                 !.ret = "session not found"]]
               /\ worktrees' = worktrees
          ELSE IF sessions'[id].Status # StatusPaused
          THEN /\ th' = [th EXCEPT ![t] =
                    [Begin(op, id) EXCEPT !.pc = "done", !.ret = "session is not paused",
                       !.calls = <<[svc |-> "git.CreateWorktree",
                                    arg |-> sessions'[id].Path, ok |-> TRUE]>>]]
               /\ worktrees' = worktrees \cup {sessions'[id].Path}
          ELSE /\ th' = [th EXCEPT ![t] = [Begin(op, id) EXCEPT !.pc = "s_worktree",
                                                                 !.session = sessions'[id]]]
               /\ worktrees' = worktrees
  /\ UNCHANGED <<now, files, tmuxSessions, timers, active, ncreate, known, last, otherVars>>

\* lines 176-184 (ResumeSession, lines 226-228, only calls StartSession):
\* GetSession, then the status check
BeginStart(t, op, id) ==
  /\ t \in active
  /\ th[t].pc = "idle"
  /\ \E found \in BOOLEAN :
       /\ GetSession(id, found)
       /\ LET b == [Begin(op, id) EXCEPT !.again = (last[t] = <<"PauseSession", id>>)]
          IN  th' = [th EXCEPT ![t] =
                IF ~found
                THEN [b EXCEPT !.pc = "done", !.ret = "session not found"]
                ELSE IF sessions'[id].Status # StatusPaused
                THEN [b EXCEPT !.pc = "done", !.ret = "session is not paused"]
                ELSE [b EXCEPT !.pc = "s_worktree", !.session = sessions'[id]]]
  /\ UNCHANGED <<now, files, worktrees, tmuxSessions, timers, active, ncreate, known, last, otherVars>>

\* lines 186-190: gitService.CreateWorktree(session.Path, session.Path, ...)
StartWorktree(t) ==
  /\ th[t].pc = "s_worktree"
  /\ \/ /\ th[t].session.Path \notin worktrees
        /\ worktrees' = worktrees \cup {th[t].session.Path}
        /\ th' = [th EXCEPT ![t].pc = "s_tmux", ![t].wpath = th[t].session.Path,
                            ![t].calls = Call(t, "git.CreateWorktree", th[t].session.Path, TRUE)]
     \/ /\ worktrees' = worktrees
        /\ th' = [th EXCEPT ![t].pc = "done", ![t].ret = "failed to recreate worktree",
                            ![t].calls = Call(t, "git.CreateWorktree", th[t].session.Path, FALSE)]
  /\ UNCHANGED <<now, sessions, files, tmuxSessions, timers, active, ncreate, known, last, otherVars>>

\* lines 192-196: tmuxService.CreateSession(sessionID, ...)
StartTmux(t) ==
  /\ th[t].pc = "s_tmux"
  /\ \/ /\ th[t].id \notin tmuxSessions
        /\ tmuxSessions' = tmuxSessions \cup {th[t].id}
        /\ th' = [th EXCEPT ![t].pc = "s_update",
                            ![t].calls = Call(t, "tmux.CreateSession", th[t].id, TRUE)]
     \/ /\ tmuxSessions' = tmuxSessions
        /\ th' = [th EXCEPT ![t].pc = "done", ![t].ret = "failed to recreate tmux session",
                            ![t].calls = Call(t, "tmux.CreateSession", th[t].id, FALSE)]
  /\ UNCHANGED <<now, sessions, files, worktrees, timers, active, ncreate, known, last, otherVars>>

\* line 198: return o.UpdateSessionStatus(ctx, sessionID, StatusReady)
StartUpdate(t) ==
  /\ th[t].pc = "s_update"
  /\ \E res \in UpdateResults :
       /\ UpdateSessionStatus(th[t].id, StatusReady, res)
       /\ th' = Done(t, res)
  /\ UNCHANGED <<worktrees, tmuxSessions, timers, active, ncreate, known, last, otherVars>>

\* -------------------------------------------------------- PauseSession
\* lines 201-209: GetSession, then the already-paused check
BeginPause(t, id) ==
  /\ t \in active
  /\ th[t].pc = "idle"
  /\ \E found \in BOOLEAN :
       /\ GetSession(id, found)
       /\ th' = [th EXCEPT ![t] =
            IF ~found
            THEN [Begin("PauseSession", id) EXCEPT !.pc = "done", !.ret = "session not found"]
            ELSE IF sessions'[id].Status = StatusPaused
            THEN [Begin("PauseSession", id) EXCEPT !.pc = "done", !.ret = "ok"]
            ELSE [Begin("PauseSession", id) EXCEPT !.pc = "p_kill", !.session = sessions'[id]]]
  /\ UNCHANGED <<now, files, worktrees, tmuxSessions, timers, active, ncreate, known, last, otherVars>>

\* a PauseSession that returns the error of tmuxService.KillSession
PauseKillFatal(t) ==
  /\ th[t].pc = "p_kill"
  /\ \/ /\ tmuxSessions' = tmuxSessions \ {th[t].id}
        /\ th' = [th EXCEPT ![t].pc = "p_remove",
                            ![t].calls = Call(t, "tmux.KillSession", th[t].id, TRUE)]
     \/ /\ tmuxSessions' = tmuxSessions
        /\ th' = [th EXCEPT ![t].pc = "done", ![t].ret = "failed to kill tmux session",
                            ![t].calls = Call(t, "tmux.KillSession", th[t].id, FALSE)]
  /\ UNCHANGED <<now, sessions, files, worktrees, timers, active, ncreate, known, last, otherVars>>

\* lines 211-215: tmuxService.KillSession; a failure is only printed
PauseKill(t) ==
  /\ th[t].pc = "p_kill"
  /\ \/ /\ tmuxSessions' = tmuxSessions \ {th[t].id}
        /\ th' = [th EXCEPT ![t].pc = "p_remove",
                            ![t].calls = Call(t, "tmux.KillSession", th[t].id, TRUE)]
     \/ /\ tmuxSessions' = tmuxSessions
        /\ th' = [th EXCEPT ![t].pc = "p_remove",
                            ![t].calls = Call(t, "tmux.KillSession", th[t].id, FALSE)]
  /\ UNCHANGED <<now, sessions, files, worktrees, timers, active, ncreate, known, last, otherVars>>

\* lines 217-221: gitService.RemoveWorktree(session.Path, false); a failure
\* is only printed
PauseRemove(t) ==
  /\ th[t].pc = "p_remove"
  /\ \/ /\ worktrees' = worktrees \ {th[t].session.Path}
        /\ th' = [th EXCEPT ![t].pc = "p_update",
                            ![t].calls = Call(t, "git.RemoveWorktree", [path |-> th[t].session.Path, force |-> FALSE], TRUE)]
     \/ /\ worktrees' = worktrees
        /\ th' = [th EXCEPT ![t].pc = "p_update",
                            ![t].calls = Call(t, "git.RemoveWorktree", [path |-> th[t].session.Path, force |-> FALSE], FALSE)]
  /\ UNCHANGED <<now, sessions, files, tmuxSessions, timers, active, ncreate, known, last, otherVars>>

\* line 223: return o.UpdateSessionStatus(ctx, sessionID, StatusPaused)
PauseUpdate(t) ==
  /\ th[t].pc = "p_update"
  /\ \E res \in UpdateResults :
       /\ UpdateSessionStatus(th[t].id, StatusPaused, res)
       /\ th' = Done(t, res)
  /\ UNCHANGED <<worktrees, tmuxSessions, timers, active, ncreate, known, last, otherVars>>

\* --------------------------------------------------------- StopSession
\* lines 230-234: GetSession
BeginStop(t, id) ==
  /\ t \in active
  /\ th[t].pc = "idle"
  /\ \E found \in BOOLEAN :
       /\ GetSession(id, found)
       /\ th' = [th EXCEPT ![t] =
            IF ~found
            THEN [Begin("StopSession", id) EXCEPT !.pc = "done", !.ret = "session not found",
                                                  !.again = (last[t] = <<"StopSession", id>>)]
            ELSE [Begin("StopSession", id) EXCEPT !.pc = "x_kill", !.session = sessions'[id],
                                                  !.again = (last[t] = <<"StopSession", id>>)]]
  /\ UNCHANGED <<now, files, worktrees, tmuxSessions, timers, active, ncreate, known, last, otherVars>>

\* lines 236-240: tmuxService.KillSession; a failure is only printed
StopKill(t) ==
  /\ th[t].pc = "x_kill"
  /\ \/ /\ tmuxSessions' = tmuxSessions \ {th[t].id}
        /\ th' = [th EXCEPT ![t].pc = "x_remove",
                            ![t].calls = Call(t, "tmux.KillSession", th[t].id, TRUE)]
     \/ /\ tmuxSessions' = tmuxSessions
        /\ th' = [th EXCEPT ![t].pc = "x_remove",
                            ![t].calls = Call(t, "tmux.KillSession", th[t].id, FALSE)]
  /\ UNCHANGED <<now, sessions, files, worktrees, timers, active, ncreate, known, last, otherVars>>

\* lines 242-246: gitService.RemoveWorktree(session.Path, true); a failure
\* is only printed
StopRemove(t) ==
  /\ th[t].pc = "x_remove"
  /\ \/ /\ worktrees' = worktrees \ {th[t].session.Path}
        /\ th' = [th EXCEPT ![t].pc = "x_delete",
                            ![t].calls = Call(t, "git.RemoveWorktree", [path |-> th[t].session.Path, force |-> TRUE], TRUE)]
     \/ /\ worktrees' = worktrees
        /\ th' = [th EXCEPT ![t].pc = "x_delete",
                            ![t].calls = Call(t, "git.RemoveWorktree", [path |-> th[t].session.Path, force |-> TRUE], FALSE)]
  /\ UNCHANGED <<now, sessions, files, tmuxSessions, timers, active, ncreate, known, last, otherVars>>

\* the error of storage.Delete not checked
StopDeleteUnchecked(t) ==
  /\ th[t].pc = "x_delete"
  /\ \/ /\ StorageDeleteOK(th[t].id)
        /\ files' = StorageDelete(th[t].id)
        /\ th' = [th EXCEPT ![t].pc = "x_evict",
                            ![t].calls = Call(t, "storage.Delete", th[t].id, TRUE)]
     \/ /\ files' = files
        /\ th' = [th EXCEPT ![t].pc = "x_evict",
                            ![t].calls = Call(t, "storage.Delete", th[t].id, FALSE)]
  /\ UNCHANGED <<now, sessions, worktrees, tmuxSessions, timers, active, ncreate, known, last, otherVars>>

\* lines 248-251: storage.Delete; its failure is returned
StopDelete(t) ==
  /\ th[t].pc = "x_delete"
  /\ \/ /\ StorageDeleteOK(th[t].id)
        /\ files' = StorageDelete(th[t].id)
        /\ th' = [th EXCEPT ![t].pc = "x_evict",
                            ![t].calls = Call(t, "storage.Delete", th[t].id, TRUE)]
     \/ /\ files' = files
        /\ th' = [th EXCEPT ![t].pc = "done",
                            ![t].ret = "failed to delete session from storage",
                            ![t].calls = Call(t, "storage.Delete", th[t].id, FALSE)]
  /\ UNCHANGED <<now, sessions, worktrees, tmuxSessions, timers, active, ncreate, known, last, otherVars>>

\* a StopSession that leaves the cache entry in place
StopEvictForgotten(t) ==
  /\ th[t].pc = "x_evict"
  /\ sessions' = sessions
  /\ th' = Done(t, "ok")
  /\ UNCHANGED <<now, files, worktrees, tmuxSessions, timers, active, ncreate, known, last, otherVars>>

\* lines 253-258: evict the cache entry, return nil
StopEvict(t) ==
  /\ th[t].pc = "x_evict"
  /\ sessions' = Drop(sessions, th[t].id)
  /\ th' = Done(t, "ok")
  /\ UNCHANGED <<now, files, worktrees, tmuxSessions, timers, active, ncreate, known, last, otherVars>>

\* ------------------------- AttachSession / SendInput / GetOutput
\* the status check AttachSession and SendInput make (lines 332, 345)
ReadyOrRunning(status) == status = StatusReady \/ status = StatusRunning

\* lines 326-334: GetSession, then the status check
AttachSession(t, id) ==
  /\ t \in active
  /\ th[t].pc = "idle"
  /\ \E found \in BOOLEAN :
       /\ GetSession(id, found)
       /\ th' = [th EXCEPT ![t] =
            IF ~found
            THEN [Begin("AttachSession", id) EXCEPT !.pc = "done", !.ret = "session not found"]
            ELSE IF ~ReadyOrRunning(sessions'[id].Status)
            THEN [Begin("AttachSession", id) EXCEPT !.pc = "done", !.session = sessions'[id],
                                                    !.ret = "session is not ready or running"]
            ELSE [Begin("AttachSession", id) EXCEPT !.pc = "a_tmux", !.session = sessions'[id]]]
  /\ UNCHANGED <<now, files, worktrees, tmuxSessions, timers, active, ncreate, known, last, otherVars>>

\* line 336: return o.tmuxService.AttachSession(ctx, sessionID)
AttachTmux(t) ==
  /\ th[t].pc = "a_tmux"
  /\ \/ /\ th[t].id \in tmuxSessions
        /\ th' = [th EXCEPT ![t].pc = "done", ![t].ret = "ok",
                            ![t].calls = Call(t, "tmux.AttachSession", th[t].id, TRUE)]
     \/ th' = [th EXCEPT ![t].pc = "done", ![t].ret = "tmux attach failed",
                         ![t].calls = Call(t, "tmux.AttachSession", th[t].id, FALSE)]
  /\ UNCHANGED <<now, sessions, files, worktrees, tmuxSessions, timers, active, ncreate, known, last, otherVars>>

\* lines 339-347: GetSession, then the status check
SendInput(t, id) ==
  /\ t \in active
  /\ th[t].pc = "idle"
  /\ \E found \in BOOLEAN :
       /\ GetSession(id, found)
       /\ th' = [th EXCEPT ![t] =
            IF ~found
            THEN [Begin("SendInput", id) EXCEPT !.pc = "done", !.ret = "session not found"]
            ELSE IF ~ReadyOrRunning(sessions'[id].Status)
            THEN [Begin("SendInput", id) EXCEPT !.pc = "done", !.session = sessions'[id],
                                                !.ret = "session is not ready or running"]
            ELSE [Begin("SendInput", id) EXCEPT !.pc = "i_tmux", !.session = sessions'[id]]]
  /\ UNCHANGED <<now, files, worktrees, tmuxSessions, timers, active, ncreate, known, last, otherVars>>

\* line 349: return o.tmuxService.SendKeys(ctx, sessionID, input)
SendKeys(t) ==
  /\ th[t].pc = "i_tmux"
  /\ \/ /\ th[t].id \in tmuxSessions
        /\ th' = [th EXCEPT ![t].pc = "done", ![t].ret = "ok",
                            ![t].calls = Call(t, "tmux.SendKeys", th[t].id, TRUE)]
     \/ th' = [th EXCEPT ![t].pc = "done", ![t].ret = "tmux send-keys failed",
                         ![t].calls = Call(t, "tmux.SendKeys", th[t].id, FALSE)]
  /\ UNCHANGED <<now, sessions, files, worktrees, tmuxSessions, timers, active, ncreate, known, last, otherVars>>

\* lines 352-360: GetSession, then the check that refuses a Paused session
GetOutput(t, id) ==
  /\ t \in active
  /\ th[t].pc = "idle"
  /\ \E found \in BOOLEAN :
       /\ GetSession(id, found)
       /\ th' = [th EXCEPT ![t] =
            IF ~found
            THEN [Begin("GetOutput", id) EXCEPT !.pc = "done", !.ret = "session not found"]
            ELSE IF sessions'[id].Status = StatusPaused
            THEN [Begin("GetOutput", id) EXCEPT !.pc = "done", !.session = sessions'[id],
                                                !.ret = "session is paused"]
            ELSE [Begin("GetOutput", id) EXCEPT !.pc = "o_tmux", !.session = sessions'[id]]]
  /\ UNCHANGED <<now, files, worktrees, tmuxSessions, timers, active, ncreate, known, last, otherVars>>

\* lines 362-368: tmuxService.CapturePane(ctx, sessionID, "0")
CapturePane(t) ==
  /\ th[t].pc = "o_tmux"
  /\ \/ /\ th[t].id \in tmuxSessions
        /\ th' = [th EXCEPT ![t].pc = "done", ![t].ret = "ok",
                            ![t].calls = Call(t, "tmux.CapturePane", th[t].id, TRUE)]
     \/ th' = [th EXCEPT ![t].pc = "done", ![t].ret = "failed to capture output",
                         ![t].calls = Call(t, "tmux.CapturePane", th[t].id, FALSE)]
  /\ UNCHANGED <<now, sessions, files, worktrees, tmuxSessions, timers, active, ncreate, known, last, otherVars>>

\* the calls whose successor call a caller pairs with them: a successful
\* StopSession, and a PauseSession that found the session Ready, had every
\* external call succeed and returned success
Paired(c) ==
  \/ c.op = "StopSession" /\ c.ret = "ok"
  \/ /\ c.op = "PauseSession" /\ c.ret = "ok"
     /\ c.session # NoSession
     /\ c.session.Status = StatusReady
     /\ \A i \in 1..Len(c.calls) : c.calls[i].ok

\* the caller takes the result
Return(t) ==
  /\ th[t].pc = "done"
  /\ th' = [th EXCEPT ![t] = Idle]
  /\ last' = [last EXCEPT ![t] = IF Paired(th[t]) THEN <<th[t].op, th[t].id>> ELSE <<>>]
  /\ UNCHANGED <<now, sessions, files, worktrees, tmuxSessions, timers, active, ncreate, known, otherVars>>

\* orchestratorImpl.ListSessions: storage.List, each record converted
ListSessions == {FromSessionData(files[i]) : i \in DOMAIN files}

Next ==
  \/ Tick
  \/ \E t \in Callers :
       \/ \E r \in CreateSessionRequest : BeginCreate(t, r)
       \/ CreateIsRepo(t)
       \/ CreateBranch(t)
       \/ CreateWorktree(t)
       \/ CreateTmux(t)
       \/ CreateUndoWorktree(t)
       \/ CreatePrompt(t)
       \/ CreateStore(t)
       \/ CreateUndoTmux(t)
       \/ CreateUndoBoth(t)
       \/ CreateCache(t)
       \/ \E id \in known : BeginStart(t, "StartSession", id)
       \/ \E id \in known : BeginStart(t, "ResumeSession", id)
       \/ StartWorktree(t)
       \/ StartTmux(t)
       \/ StartUpdate(t)
       \/ \E id \in known : BeginPause(t, id)
       \/ PauseKill(t)
       \/ PauseRemove(t)
       \/ PauseUpdate(t)
       \/ \E id \in known : BeginStop(t, id)
       \/ StopKill(t)
       \/ StopRemove(t)
       \/ StopDelete(t)
       \/ StopEvict(t)
       \/ \E id \in known : AttachSession(t, id)
       \/ AttachTmux(t)
       \/ \E id \in known : SendInput(t, id)
       \/ SendKeys(t)
       \/ \E id \in known : GetOutput(t, id)
       \/ CapturePane(t)
       \/ Return(t)
  \/ \E tm \in BagToSet(timers) : PromotionTimer(tm)

Spec == Init /\ [][Next]_vars

\* The clock keeps advancing and a goroutine that can run is run.
FairSpec ==
  /\ Spec
  /\ WF_vars(Tick)
  /\ WF_vars(\E tm \in BagToSet(timers) : PromotionTimer(tm))

\* ------------------------------------------- concurrent CreateSession
\* Two callers, each in CreateSession: the orchestrator takes no lock
\* before line 163, so their steps interleave freely.
InitCreate ==
  /\ now = 0
  /\ sessions = EmptyMap
  /\ files = EmptyMap
  /\ worktrees = {}
  /\ tmuxSessions = {}
  /\ timers = EmptyBag
  /\ th = [t \in Callers |-> Idle]
  /\ active = Callers
  /\ ncreate = 0
  /\ known = {}
  /\ last = [t \in Callers |-> <<>>]
  /\ NewExecutor
  /\ NoDaemon

\* the requests of the two callers: same Title, same repository
SameTitleRequests ==
  {r \in CreateSessionRequest : r.Title = "a" /\ r.Path = "repo" /\ r.Branch = ""}

NextCreate ==
  \/ Tick
  \/ \E t \in Callers :
       \/ \E r \in SameTitleRequests : BeginCreate(t, r)
       \/ CreateIsRepo(t)
       \/ CreateBranch(t)
       \/ CreateWorktree(t)
       \/ CreateTmux(t)
       \/ CreateUndoWorktree(t)
       \/ CreatePrompt(t)
       \/ CreateStore(t)
       \/ CreateUndoTmux(t)
       \/ CreateUndoBoth(t)
       \/ CreateCache(t)
       \/ Return(t)
  \/ \E tm \in BagToSet(timers) : PromotionTimer(tm)

SpecCreate == InitCreate /\ [][NextCreate]_vars

\* ----------------------------------------------------- execImpl.Execute
orchVars == <<now, sessions, files, worktrees, tmuxSessions, timers, th, active, ncreate, known, last>>

\* every variable that is not one of sem, ecall, streams
nonExecVars == <<orchVars, opts, streamVars, tableVars, daemonVars>>

\* lines 742-745: a negative RetryCount counts as 0
Retries == IF opts.RetryCount < 0 THEN 0 ELSE opts.RetryCount

\* an acquisition that does not wait for a free slot
ExecuteUnbounded(p, code) ==
  /\ ecall[p].pc = "idle"
  /\ sem' = sem + 1
  /\ ecall' = [ecall EXCEPT ![p] = [ExecIdle EXCEPT !.pc = "run", !.kind = "Execute",
                                                    !.code = code]]
  /\ UNCHANGED <<streams, nonExecVars>>

\* a release deferred before the select: it also runs on cancellation
ExecuteReleasesOnCancel(p, code) ==
  /\ ecall[p].pc = "idle"
  /\ \/ /\ sem < MaxConcurrent
        /\ sem' = sem + 1
        /\ ecall' = [ecall EXCEPT ![p] = [ExecIdle EXCEPT !.pc = "run", !.kind = "Execute",
                                                          !.code = code]]
     \/ /\ sem > 0
        /\ sem' = sem - 1
        /\ ecall' = [ecall EXCEPT ![p] = [ExecIdle EXCEPT !.pc = "done", !.kind = "Execute",
                                                          !.code = code, !.ret = "ctx.Err"]]
  /\ UNCHANGED <<streams, nonExecVars>>

\* lines 687-745: the select on the semaphore channel and on ctx.Done(),
\* then the exec.Cmd is built
Execute(p, code) ==
  /\ ecall[p].pc = "idle"
  /\ \/ /\ sem < MaxConcurrent
        /\ sem' = sem + 1
        /\ ecall' = [ecall EXCEPT ![p] = [ExecIdle EXCEPT !.pc = "run", !.kind = "Execute",
                                                          !.code = code]]
     \/ /\ sem' = sem
        /\ ecall' = [ecall EXCEPT ![p] = [ExecIdle EXCEPT !.pc = "done", !.kind = "Execute",
                                                          !.code = code, !.ret = "ctx.Err"]]
  /\ UNCHANGED <<streams, nonExecVars>>

\* a loop that goes on after any failure
AfterFailureRetryAll(c, exitCode) ==
  IF c.attempt = Retries
  THEN [c EXCEPT !.pc = "release", !.exitCode = exitCode, !.log = Append(c.log, exitCode)]
  ELSE [c EXCEPT !.pc = "run", !.exitCode = exitCode, !.log = Append(c.log, exitCode),
                 !.attempt = c.attempt + 1]

\* lines 769-784: after a failed attempt with this exit code, retry or stop
AfterFailure(c, exitCode) ==
  IF exitCode \notin RetryOnErrors \/ c.attempt = Retries
  THEN [c EXCEPT !.pc = "release", !.exitCode = exitCode, !.log = Append(c.log, exitCode)]
  ELSE [c EXCEPT !.pc = "run", !.exitCode = exitCode, !.log = Append(c.log, exitCode),
                 !.attempt = c.attempt + 1]

\* line 755, execCmd.Run() is entered: a Cmd that was never started starts
\* the program; a Cmd that was started before (the loop reuses the one
\* Cmd of line 707) returns the error "exec: already started", which is
\* no *exec.ExitError
ExecuteRun(p) ==
  /\ ecall[p].pc = "run"
  /\ ecall' = [ecall EXCEPT ![p] =
       IF ecall[p].started
       THEN AfterFailure([ecall[p] EXCEPT !.err = "exec: already started"], NotAnExitError)
       ELSE [ecall[p] EXCEPT !.pc = "wait", !.started = TRUE, !.runs = ecall[p].runs + 1]]
  /\ UNCHANGED <<sem, streams, nonExecVars>>

\* lines 755-784, execCmd.Run() returns. Either the program has exited
\* with its exit code, or the deadline of execCtx (lines 696-704) has
\* expired and exec.CommandContext has killed it: Run then returns an
\* *exec.ExitError whose WaitStatus is "signaled", and ExitStatus() of
\* that is -1. What the program wrote is in the buffers either way.
ExecuteExit(p) ==
  /\ ecall[p].pc = "wait"
  /\ LET c == [ecall[p] EXCEPT !.stdout = ecall[p].stdout \cup {ecall[p].attempt}]
     IN  \/ ecall' = [ecall EXCEPT ![p] =
                IF c.code = 0
                THEN [c EXCEPT !.pc = "release", !.exitCode = 0, !.log = Append(c.log, 0),
                               !.err = "nil"]
                ELSE AfterFailure([c EXCEPT !.err = "exit status"], c.code)]
         \/ ecall' = [ecall EXCEPT ![p] =
                AfterFailure([c EXCEPT !.timedOut = TRUE, !.err = "signal: killed"],
                             KilledExitStatus)]
  /\ UNCHANGED <<sem, streams, nonExecVars>>

\* lines 786-804, return result, nil: the error of the last Run is in
\* Result.Error; and the deferred receive of line 691
ExecuteReturn(p) ==
  /\ ecall[p].pc = "release"
  /\ sem' = sem - 1
  /\ ecall' = [ecall EXCEPT ![p].pc = "done", ![p].ret = "result"]
  /\ UNCHANGED <<streams, nonExecVars>>

\* -------------------------------------------- execImpl.ExecuteStreaming
\* lines 814-843: the select on the semaphore channel and on ctx.Done()
ExecuteStreaming(p, code) ==
  /\ ecall[p].pc = "idle"
  /\ \/ /\ sem < MaxConcurrent
        /\ sem' = sem + 1
        /\ ecall' = [ecall EXCEPT ![p] = [ExecIdle EXCEPT !.pc = "start", !.code = code,
                                                          !.kind = "ExecuteStreaming"]]
     \/ /\ sem' = sem
        /\ ecall' = [ecall EXCEPT ![p] = [ExecIdle EXCEPT !.pc = "done", !.code = code,
                                            !.kind = "ExecuteStreaming", !.ret = "ctx.Err"]]
  /\ UNCHANGED <<streams, nonExecVars>>

\* lines 844-870 and 953: the pipes and execCmd.Start(); on an error the
\* slot is given back, else the goroutine is started and the channel returned
StreamStart(p) ==
  /\ ecall[p].pc = "start"
  /\ \/ /\ sem' = sem - 1
        /\ streams' = streams
        /\ ecall' = [ecall EXCEPT ![p].pc = "done", ![p].ret = "failed to start command"]
     \/ /\ sem' = sem
        /\ streams' = [streams EXCEPT !.running = streams.running + 1]
        /\ ecall' = [ecall EXCEPT ![p].pc = "done", ![p].ret = "channel",
                                  ![p].started = TRUE, ![p].runs = 1]
  /\ UNCHANGED nonExecVars

\* lines 877-950: both pipes are read to their end and execCmd.Wait() returns
StreamExit ==
  /\ streams.running > 0
  /\ streams' = [running |-> streams.running - 1, exited |-> streams.exited + 1]
  /\ UNCHANGED <<sem, ecall, nonExecVars>>

\* lines 871-875: the goroutine's deferred receive from the semaphore channel
StreamRelease ==
  /\ streams.exited > 0
  /\ streams' = [streams EXCEPT !.exited = streams.exited - 1]
  /\ sem' = sem - 1
  /\ UNCHANGED <<ecall, nonExecVars>>

\* the caller takes the result
ExecDone(p) ==
  /\ ecall[p].pc = "done"
  /\ ecall' = [ecall EXCEPT ![p] = ExecIdle]
  /\ UNCHANGED <<sem, streams, nonExecVars>>

NextExec ==
  \/ \E p \in ExecCallers :
       \/ \E code \in ProgramExitCodes : Execute(p, code)
       \/ ExecuteRun(p)
       \/ ExecuteExit(p)
       \/ ExecuteReturn(p)
       \/ \E code \in ProgramExitCodes : ExecuteStreaming(p, code)
       \/ StreamStart(p)
       \/ ExecDone(p)
  \/ StreamExit
  \/ StreamRelease

\* the RetryCount values an executor is built with
RetryCounts == {-1, 0, RetryCount}

InitExec ==
  /\ now = 0
  /\ sessions = EmptyMap
  /\ files = EmptyMap
  /\ worktrees = {}
  /\ tmuxSessions = {}
  /\ timers = EmptyBag
  /\ th = [t \in Callers |-> Idle]
  /\ active = {}
  /\ ncreate = 0
  /\ known = {}
  /\ last = [t \in Callers |-> <<>>]
  /\ sem = 0
  /\ ecall = [p \in ExecCallers |-> ExecIdle]
  /\ streams = [running |-> 0, exited |-> 0]
  /\ opts \in [RetryCount : RetryCounts]
  /\ ch = <<>>
  /\ sg = NoStream
  /\ runningProcs = EmptyMap
  /\ handles = [h \in Handles |-> NoHandle]
  /\ tret = [op |-> "none", h |-> 0, val |-> {}, err |-> "nil"]
  /\ NoDaemon

SpecExec == InitExec /\ [][NextExec]_vars

\* ------------------------------ one ExecuteStreaming call, step by step
Pipes == {"stdout", "stderr"}

\* the call itself: caller 1, once, through ExecuteStreaming and StreamStart
StreamCall ==
  /\ sg.pc = "none"
  /\ streams.running = 0
  /\ \E code \in ProgramExitCodes : ExecuteStreaming(1, code)

\* line 870: the goroutine starts, lines 877-930: it starts the two readers
StreamReaders ==
  /\ sg.pc = "none"
  /\ streams.running = 1
  /\ sg' = [sg EXCEPT !.pc = "readers", !.proc = "running",
                      !.rd = [stdout |-> "read", stderr |-> "read"]]
  /\ UNCHANGED <<ch, execVars, orchVars, tableVars, daemonVars>>

\* lines 885 / 911, pipe.Read(buf): a chunk while the program runs, the
\* end of the pipe once it has exited, or an error
ReadPipe(r) ==
  /\ sg.pc = "readers"
  /\ sg.rd[r] = "read"
  /\ \/ sg.proc = "running" /\ sg' = [sg EXCEPT !.rd[r] = "send"]
     \/ sg.proc = "exited" /\ sg' = [sg EXCEPT !.rd[r] = "done"]
     \/ sg' = [sg EXCEPT !.rd[r] = "senderr"]
  /\ UNCHANGED <<ch, execVars, orchVars, tableVars, daemonVars>>

\* lines 887-891 / 895-899: outputCh <- Output{...}, which waits for room
\* in the channel; after an error event the reader ends
SendChunk(r) ==
  /\ sg.pc = "readers"
  /\ sg.rd[r] \in {"send", "senderr"}
  /\ Len(ch) < OutputBuffer
  /\ ch' = Append(ch, IF sg.rd[r] = "send" THEN "chunk" ELSE "error")
  /\ sg' = [sg EXCEPT !.rd[r] = IF sg.rd[r] = "send" THEN "read" ELSE "done"]
  /\ UNCHANGED <<execVars, orchVars, tableVars, daemonVars>>

\* the program exits, or exec.CommandContext kills it because the context
\* was cancelled or its deadline (lines 826-833) has expired
ProcExit ==
  /\ sg.proc = "running"
  /\ sg' = [sg EXCEPT !.proc = "exited"]
  /\ UNCHANGED <<ch, execVars, orchVars, tableVars, daemonVars>>

\* an exit event emitted without waiting for the readers
StreamWaitEarly ==
  /\ sg.pc = "readers"
  /\ sg.proc = "exited"
  /\ sg' = [sg EXCEPT !.pc = "exit"]
  /\ UNCHANGED <<ch, execVars, orchVars, tableVars, daemonVars>>

\* lines 932-943: wg.Wait() returns when both readers have ended, then
\* execCmd.Wait() returns when the process has ended
StreamWait ==
  /\ sg.pc = "readers"
  /\ sg.rd["stdout"] = "done" /\ sg.rd["stderr"] = "done"
  /\ sg.proc = "exited"
  /\ sg' = [sg EXCEPT !.pc = "exit"]
  /\ UNCHANGED <<ch, execVars, orchVars, tableVars, daemonVars>>

\* lines 945-950: outputCh <- Output{Type: OutputTypeExit, ...}
SendExit ==
  /\ sg.pc = "exit"
  /\ Len(ch) < OutputBuffer
  /\ ch' = Append(ch, "exit")
  /\ sg' = [sg EXCEPT !.pc = "deferred"]
  /\ UNCHANGED <<execVars, orchVars, tableVars, daemonVars>>

\* lines 871-875, the deferred function: <-e.concurrentSem, cancel(),
\* close(outputCh)
StreamDeferred ==
  /\ sg.pc = "deferred"
  /\ sem' = sem - 1
  /\ streams' = [streams EXCEPT !.running = streams.running - 1]
  /\ sg' = [sg EXCEPT !.pc = "done", !.closed = TRUE]
  /\ UNCHANGED <<ch, ecall, opts, orchVars, tableVars, daemonVars>>

\* the consumer receives the next Output
Receive ==
  /\ sg.consumer = "reading"
  /\ ch # <<>>
  /\ ch' = Tail(ch)
  /\ sg' = [sg EXCEPT !.chunks = sg.chunks \/ Head(ch) = "chunk",
                      !.exits = IF Head(ch) = "exit" THEN Min(sg.exits + 1, 2) ELSE sg.exits,
                      !.afterExit = sg.afterExit \/ sg.exits > 0]
  /\ UNCHANGED <<execVars, orchVars, tableVars, daemonVars>>

\* the consumer finds the channel closed and empty
ReceiveClosed ==
  /\ sg.consumer = "reading"
  /\ ch = <<>>
  /\ sg.closed
  /\ ~sg.closedSeen
  /\ sg' = [sg EXCEPT !.closedSeen = TRUE]
  /\ UNCHANGED <<ch, execVars, orchVars, tableVars, daemonVars>>

\* the caller cancels the context, or the deadline of the call expires
ContextDone(why) ==
  /\ sg.pc \notin {"none", "done"}
  /\ sg.ctx = "live"
  /\ sg' = [sg EXCEPT !.ctx = why]
  /\ UNCHANGED <<ch, execVars, orchVars, tableVars, daemonVars>>

\* a consumer that has cancelled the context stops receiving
ConsumerStops ==
  /\ sg.consumer = "reading"
  /\ sg.ctx = "cancelled"
  /\ sg' = [sg EXCEPT !.consumer = "stopped"]
  /\ UNCHANGED <<ch, execVars, orchVars, tableVars, daemonVars>>

NextStream ==
  \/ StreamCall
  \/ StreamStart(1)
  \/ ExecDone(1)
  \/ StreamReaders
  \/ \E r \in Pipes : ReadPipe(r)
  \/ \E r \in Pipes : SendChunk(r)
  \/ ProcExit
  \/ StreamWait
  \/ SendExit
  \/ StreamDeferred
  \/ Receive
  \/ ReceiveClosed
  \/ \E why \in {"cancelled", "expired"} : ContextDone(why)
  \/ ConsumerStops

SpecStream == Init /\ [][NextStream]_vars

\* ----------------------------------------------------- the process table
\* every variable that is not the process table's
nonTableVars == <<execVars, streamVars, orchVars, daemonVars>>

Started == {h \in Handles : handles[h].proc # "none"}

\* lines 998-1031: execCmd.Start() fails and nothing is registered, or the
\* process runs and its handle is registered with state running
Start ==
  /\ \/ /\ tret' = [op |-> "Start", h |-> 0, val |-> {}, err |-> "failed to start process"]
        /\ UNCHANGED <<runningProcs, handles>>
     \/ /\ Started # Handles
        /\ LET h == CHOOSE x \in Handles \ Started : \A y \in Handles \ Started : x <= y
           IN  /\ handles' = [handles EXCEPT ![h].proc = "running"]
               /\ runningProcs' = Put(runningProcs, h, "running")
               /\ tret' = [op |-> "Start", h |-> h, val |-> {}, err |-> "nil"]
  /\ UNCHANGED nonTableVars

\* the process of a handle ends by itself, or is killed because the
\* context given to Start was cancelled (line 1000)
ProcessEnds(h) ==
  /\ handles[h].proc = "running"
  /\ handles' = [handles EXCEPT ![h].proc = "exited"]
  /\ UNCHANGED <<runningProcs, tret, nonTableVars>>

\* a Kill that also forgets the handle
KillRemoves(h) ==
  /\ h \in Started
  /\ handles' = [handles EXCEPT ![h].proc = "exited", ![h].killed = TRUE]
  /\ runningProcs' = Drop(runningProcs, h)
  /\ tret' = [op |-> "Kill", h |-> h, val |-> {},
              err |-> IF handles[h].proc = "running" THEN "nil" ELSE "process already finished"]
  /\ UNCHANGED nonTableVars

\* lines 1033-1035 and 1123-1134: Process.Kill(), then the entry's state
\* is set to exited if the handle is in the table
Kill(h) ==
  /\ h \in Started
  /\ handles' = [handles EXCEPT ![h].proc = "exited", ![h].killed = TRUE]
  /\ runningProcs' = IF h \in DOMAIN runningProcs THEN Put(runningProcs, h, "exited")
                     ELSE runningProcs
  /\ tret' = [op |-> "Kill", h |-> h, val |-> {},
              err |-> IF handles[h].proc = "running" THEN "nil" ELSE "process already finished"]
  /\ UNCHANGED nonTableVars

\* lines 1037-1039 and 1119-1121: the signal is delivered; the table is
\* not looked at. SIGKILL and SIGTERM end the process.
Signal(h, fatal) ==
  /\ h \in Started
  /\ handles' = IF fatal THEN [handles EXCEPT ![h].proc = "exited"] ELSE handles
  /\ tret' = [op |-> "Signal", h |-> h, val |-> {},
              err |-> IF handles[h].proc = "running" THEN "nil" ELSE "process already finished"]
  /\ UNCHANGED <<runningProcs, nonTableVars>>

\* lines 1041-1043 and 1136-1161: h.cmd.Wait() returns once the process
\* has ended (at once, with an error, if Wait was called before), then the
\* entry is deleted if it is there
Wait(h) ==
  /\ h \in Started
  /\ handles[h].proc = "exited"
  /\ handles' = [handles EXCEPT ![h].waited = TRUE]
  /\ runningProcs' = Drop(runningProcs, h)
  /\ tret' = [op |-> "Wait", h |-> h, val |-> {},
              err |-> IF handles[h].waited THEN "Wait was already called" ELSE "nil"]
  /\ UNCHANGED nonTableVars

\* lines 1045-1061
GetProcessInfo(h) ==
  /\ h \in Started
  /\ tret' = IF h \in DOMAIN runningProcs
             THEN [op |-> "GetProcessInfo", h |-> h, val |-> {<<h, runningProcs[h]>>},
                   err |-> "nil"]
             ELSE [op |-> "GetProcessInfo", h |-> h, val |-> {}, err |-> "process not found"]
  /\ UNCHANGED <<runningProcs, handles, nonTableVars>>

\* lines 1063-1079: one ProcessInfo for every entry of the table
ListProcesses ==
  /\ tret' = [op |-> "ListProcesses", h |-> 0,
              val |-> {<<h, runningProcs[h]>> : h \in DOMAIN runningProcs}, err |-> "nil"]
  /\ UNCHANGED <<runningProcs, handles, nonTableVars>>

\* lines 1081-1092: the handle whose process has this PID
FindProcess(h) ==
  /\ h \in Started
  /\ tret' = IF h \in DOMAIN runningProcs
             THEN [op |-> "FindProcess", h |-> h, val |-> {}, err |-> "nil"]
             ELSE [op |-> "FindProcess", h |-> 0, val |-> {}, err |-> "not found"]
  /\ UNCHANGED <<runningProcs, handles, nonTableVars>>

NextTable ==
  \/ Start
  \/ \E h \in Handles :
       \/ ProcessEnds(h)
       \/ Kill(h)
       \/ \E fatal \in BOOLEAN : Signal(h, fatal)
       \/ Wait(h)
       \/ GetProcessInfo(h)
       \/ FindProcess(h)
  \/ ListProcesses

SpecTable == Init /\ [][NextTable]_vars

\* ------------------------------------------------------------ the Daemon
\* promptPatterns of shouldRespond, in its order
PromptPatterns ==
  <<<<"[", "Y", "/", "n", "]">>,
    <<"(", "y", "/", "N", ")">>,
    <<"C", "o", "n", "t", "i", "n", "u", "e", "?">>,
    <<"P", "r", "o", "c", "e", "e", "d", "?">>,
    <<"P", "r", "e", "s", "s", " ", "E", "n", "t", "e", "r">>,
    <<"p", "r", "e", "s", "s", " ", "e", "n", "t", "e", "r">>,
    <<"H", "i", "t", " ", "e", "n", "t", "e", "r">>,
    <<"h", "i", "t", " ", "e", "n", "t", "e", "r">>,
    <<">", ">", ">", " ">>,
    <<"c", "l", "a", "u", "d", "e", ">", " ">>,
    <<"a", "i", "d", "e", "r", ">", " ">>,
    <<">", " ">>>>

\* containsPattern: text is the pattern or ends with it
ContainsPattern(text, pattern) ==
  /\ Len(text) > 0
  /\ Len(pattern) > 0
  /\ \/ text = pattern
     \/ /\ Len(text) > Len(pattern)
        /\ SubSeq(text, Len(text) - Len(pattern) + 1, Len(text)) = pattern

\* shouldRespond from pattern i on. output[len(output)-len(pattern)-10:]
\* panics with "slice bounds out of range" when the index is negative.
RECURSIVE ShouldRespondFrom(_, _)
ShouldRespondFrom(output, i) ==
  IF i > Len(PromptPatterns) THEN "false"
  ELSE LET pattern == PromptPatterns[i]
           from == Len(output) - Len(pattern) - 10
       IN  IF Len(output) > Len(pattern)
           THEN IF from < 0 THEN "panic"
                ELSE IF ContainsPattern(SubSeq(output, from + 1, Len(output)), pattern)
                     THEN "true"
                     ELSE ShouldRespondFrom(output, i + 1)
           ELSE ShouldRespondFrom(output, i + 1)

ShouldRespond(output) == ShouldRespondFrom(output, 1)

\* n characters that belong to no prompt
Pad(n) == [i \in 1..n |-> "x"]

\* the pane contents tried: an empty pane, and a short and a long one
\* that end in the prompt "> "
Outputs ==
  {<<>>,
   Pad(ShortPad) \o <<">", " ">>,
   Pad(LongPad) \o <<">", " ">>}

\* the sessions the orchestrator holds when the Daemon is started
DaemonIDs == {<<"a", 0>>, <<"a", 1>>}

Statuses == {StatusRunning, StatusReady, StatusLoading, StatusPaused}

SessionOf(id, status) ==
  [ID |-> id, Title |-> id[1], Path |-> "repo", Branch |-> "feat", Status |-> status,
   Program |-> "claude", Height |-> 0, Width |-> 0, CreatedAt |-> id[2],
   UpdatedAt |-> MaxClock, AutoYes |-> FALSE, Prompt |-> ""]

\* every variable of the orchestrator that the Daemon's calls leave alone
daemonFrame == <<now, worktrees, timers, th, active, ncreate, known, last,
                 execVars, streamVars, tableVars>>

\* the sessions exist: created through the orchestrator, cached, stored,
\* each with a tmux session
InitDaemon ==
  /\ now = MaxClock
  /\ \E st \in [DaemonIDs -> Statuses] :
       /\ sessions = [id \in DaemonIDs |-> SessionOf(id, st[id])]
       /\ files = [id \in DaemonIDs |-> ToSessionData(SessionOf(id, st[id]))]
  /\ worktrees = {}
  /\ tmuxSessions = DaemonIDs
  /\ timers = EmptyBag
  /\ th = [t \in Callers |-> Idle]
  /\ active = {}
  /\ ncreate = 0
  /\ known = {}
  /\ last = [t \in Callers |-> <<>>]
  /\ NewExecutor
  /\ panes = [id \in DaemonIDs |-> <<>>]
  /\ dm = NewDaemon
  /\ newlines = [id \in DaemonIDs |-> 0]

\* a panic that nothing recovers ends the process and all its goroutines
Alive == dm.pc # "crashed" /\ dm.run # "crashed" /\ dm.stop # "crashed"

\* lines 546-575 and 601-618, Run and loadSessions: d.sessions is filled
\* from orchestrator.ListSessions, each Session with AutoYes set; these
\* are objects of the Daemon's own. An error ends Run; else the
\* monitoring goroutine is started.
LoadSessions ==
  /\ Alive
  /\ dm.run = "new"
  /\ \/ dm' = [dm EXCEPT !.pc = "idle", !.run = "serving",
                         !.sessions = [id \in {x.ID : x \in ListSessions} |->
                            [own |-> TRUE,
                             Status |-> (CHOOSE x \in ListSessions : x.ID = id).Status]]]
     \/ dm' = [dm EXCEPT !.run = "failed"]
  /\ UNCHANGED <<sessions, files, tmuxSessions, panes, newlines, daemonFrame>>

\* the orders in which a range over the keys of a map can visit them
Orders(S) == {q \in [1..Cardinality(S) -> S] : \A i, j \in 1..Cardinality(S) :
                                                 i # j => q[i] # q[j]}

\* lines 570-571 and 620-626: the timer fires and processSessions copies
\* the keys of d.sessions
ProcessSessions ==
  /\ Alive
  /\ dm.pc = "idle"
  /\ \E q \in Orders(DOMAIN dm.sessions) : dm' = [dm EXCEPT !.pc = "next", !.queue = q]
  /\ UNCHANGED <<sessions, files, tmuxSessions, panes, newlines, daemonFrame>>

\* lines 628-631 and 572: the loop over the copied keys ends, the timer is reset
EndTick ==
  /\ Alive
  /\ dm.pc = "next"
  /\ dm.queue = <<>>
  /\ dm' = [dm EXCEPT !.pc = "idle", !.failed = FALSE]
  /\ UNCHANGED <<sessions, files, tmuxSessions, panes, newlines, daemonFrame>>

\* sess.Status as the Daemon reads it. An object of its own holds what it
\* held; an object it got from GetSession is the orchestrator's cached
\* object, which UpdateSessionStatus writes under o.mu while the Daemon
\* reads it without that lock: the read gives the new or the old value.
ReadStatus(id) ==
  IF dm.sessions[id].own \/ id \notin DOMAIN sessions
  THEN {dm.sessions[id].Status}
  ELSE {dm.sessions[id].Status, sessions[id].Status}

\* processSession returns: the session has been dealt with in this tick;
\* failed tells whether it returns after a call that failed
Processed(failed) ==
  [dm EXCEPT !.pc = "next", !.queue = Tail(dm.queue), !.cur = <<>>, !.failed = failed]

\* lines 633-645: the next key; a session that is neither Running nor
\* Ready is left at once
ProcessSession ==
  /\ Alive
  /\ dm.pc = "next"
  /\ dm.queue # <<>>
  /\ LET id == Head(dm.queue)
     IN  \E status \in ReadStatus(id) :
           dm' = IF ReadyOrRunning(status)
                 THEN [dm EXCEPT !.pc = "get", !.cur = id, !.failed = FALSE,
                                 !.sessions[id].Status = status]
                 ELSE [Processed(FALSE) EXCEPT !.sessions[id].Status = status]
  /\ UNCHANGED <<sessions, files, tmuxSessions, panes, newlines, daemonFrame>>

\* lines 648-657: orchestrator.GetOutput, which fails for an unknown or a
\* Paused session and when capture-pane fails; processSession then
\* returns. Else shouldRespond is applied to the output; a panic in it
\* ends the process, for nothing recovers it.
DaemonGetOutput ==
  /\ Alive
  /\ dm.pc = "get"
  /\ \E found \in BOOLEAN :
       /\ GetSession(dm.cur, found)
       /\ \/ /\ found
             /\ sessions'[dm.cur].Status # StatusPaused
             /\ dm.cur \in tmuxSessions
             /\ dm' = [dm EXCEPT !.pc = CASE ShouldRespond(panes[dm.cur]) = "panic" -> "crashed"
                                        [] ShouldRespond(panes[dm.cur]) = "true" -> "send"
                                        [] OTHER -> "reread"]
          \/ dm' = Processed(TRUE)
  /\ UNCHANGED <<files, tmuxSessions, panes, newlines, daemonFrame>>

\* lines 658-665: orchestrator.SendInput(ctx, sessionID, "\n"), which
\* fails for an unknown session, one that is neither Ready nor Running,
\* and when send-keys fails; an error is logged and nothing else
DaemonSendInput ==
  /\ Alive
  /\ dm.pc = "send"
  /\ \E found \in BOOLEAN :
       /\ GetSession(dm.cur, found)
       /\ \/ /\ found
             /\ ReadyOrRunning(sessions'[dm.cur].Status)
             /\ dm.cur \in tmuxSessions
             /\ newlines' = [newlines EXCEPT ![dm.cur] = Min(newlines[dm.cur] + 1, MaxNewlines)]
             /\ dm' = [dm EXCEPT !.pc = "reread"]
          \/ /\ newlines' = newlines
             /\ dm' = [dm EXCEPT !.pc = "reread", !.failed = TRUE]
  /\ UNCHANGED <<files, tmuxSessions, panes, daemonFrame>>

\* lines 667-673: orchestrator.GetSession; on success d.sessions holds
\* the object GetSession returned, which is the cached one
DaemonGetSession ==
  /\ Alive
  /\ dm.pc = "reread"
  /\ \E found \in BOOLEAN :
       /\ GetSession(dm.cur, found)
       /\ dm' = IF found
                THEN [Processed(dm.failed) EXCEPT !.sessions[dm.cur] =
                        [own |-> FALSE, Status |-> sessions'[dm.cur].Status]]
                ELSE Processed(TRUE)
  /\ UNCHANGED <<files, tmuxSessions, panes, newlines, daemonFrame>>

\* the context given to Run is cancelled
ContextCancelled ==
  /\ Alive
  /\ dm.run = "serving"
  /\ dm.ctx = "live"
  /\ dm' = [dm EXCEPT !.ctx = "done"]
  /\ UNCHANGED <<sessions, files, tmuxSessions, panes, newlines, daemonFrame>>

\* close(d.stopCh): closing a closed channel panics
CloseStopCh(who) ==
  IF dm.stopCh = "closed" THEN [dm EXCEPT ![who] = "crashed"]
  ELSE [dm EXCEPT ![who] = "wait", !.stopCh = "closed"]

\* Run returns as soon as the goroutine is told to stop
RunReturnEarly ==
  /\ Alive
  /\ dm.run = "wait"
  /\ dm' = [dm EXCEPT !.run = "returned"]
  /\ UNCHANGED <<sessions, files, tmuxSessions, panes, newlines, daemonFrame>>

\* lines 581-589: SIGINT or SIGTERM arrives, or the context is done; Run
\* leaves its select and closes stopCh
RunShutdown(why) ==
  /\ Alive
  /\ dm.run = "serving"
  /\ why = "context" => dm.ctx = "done"
  /\ dm' = [CloseStopCh("run") EXCEPT !.inflight = dm.pc # "idle"]
  /\ UNCHANGED <<sessions, files, tmuxSessions, panes, newlines, daemonFrame>>

\* lines 564-569: between two ticks the goroutine finds ctx.Done() or
\* stopCh ready and returns; wg.Done() is deferred
MonitorReturn ==
  /\ Alive
  /\ dm.pc = "idle"
  /\ dm.stopCh = "closed" \/ dm.ctx = "done"
  /\ dm' = [dm EXCEPT !.pc = "exited"]
  /\ UNCHANGED <<sessions, files, tmuxSessions, panes, newlines, daemonFrame>>

\* lines 590-598: d.wg.Wait() returns when the goroutine has returned,
\* then saveSessions, which only logs, and Run returns nil
RunReturn ==
  /\ Alive
  /\ dm.run = "wait"
  /\ dm.pc = "exited"
  /\ dm' = [dm EXCEPT !.run = "returned"]
  /\ UNCHANGED <<sessions, files, tmuxSessions, panes, newlines, daemonFrame>>

\* lines 723-725, Stop: close(d.stopCh)
DaemonStop ==
  /\ Alive
  /\ dm.stop = "none"
  /\ dm' = CloseStopCh("stop")
  /\ UNCHANGED <<sessions, files, tmuxSessions, panes, newlines, daemonFrame>>

\* line 725, d.wg.Wait() in Stop: returns when no goroutine is counted
DaemonStopReturn ==
  /\ Alive
  /\ dm.stop = "wait"
  /\ dm.pc \in {"new", "exited"}
  /\ dm' = [dm EXCEPT !.stop = "returned"]
  /\ UNCHANGED <<sessions, files, tmuxSessions, panes, newlines, daemonFrame>>

\* the program of a session writes to its pane
PaneChanges(id, out) ==
  /\ id \in tmuxSessions
  /\ panes[id] # out
  /\ panes' = [panes EXCEPT ![id] = out]
  /\ newlines' = [newlines EXCEPT ![id] = 0]
  /\ UNCHANGED <<sessions, files, tmuxSessions, dm, daemonFrame>>

\* another client of the orchestrator has the status of a session
\* changed: the promotion timer and StartSession make it Ready,
\* PauseSession makes it Paused, all through UpdateSessionStatus
StatusChanges(id, status) ==
  /\ id \in DOMAIN sessions
  /\ sessions[id].Status # status
  /\ UpdateSessionStatus(id, status, "ok")
  /\ UNCHANGED <<tmuxSessions, panes, dm, newlines, worktrees, timers, th, active, ncreate,
                 known, last, execVars, streamVars, tableVars>>

\* another client stops a session: its tmux session is killed, its record
\* deleted and its cache entry evicted. The object the Daemon may hold
\* keeps the status it had.
SessionStopped(id) ==
  /\ id \in DOMAIN sessions
  /\ sessions' = Drop(sessions, id)
  /\ files' = Drop(files, id)
  /\ tmuxSessions' = tmuxSessions \ {id}
  /\ dm' = IF id \in DOMAIN dm.sessions /\ ~dm.sessions[id].own
           THEN [dm EXCEPT !.sessions[id] = [own |-> TRUE, Status |-> sessions[id].Status]]
           ELSE dm
  /\ UNCHANGED <<panes, newlines, daemonFrame>>

NextDaemon ==
  \/ LoadSessions
  \/ ProcessSessions
  \/ ProcessSession
  \/ DaemonGetOutput
  \/ DaemonSendInput
  \/ DaemonGetSession
  \/ EndTick
  \/ \E id \in DaemonIDs, out \in Outputs : PaneChanges(id, out)
  \/ \E id \in DaemonIDs, status \in {StatusReady, StatusPaused} : StatusChanges(id, status)
  \/ \E id \in DaemonIDs : SessionStopped(id)

SpecDaemon == InitDaemon /\ [][NextDaemon]_vars

\* ------------------------------------- the Daemon from Run to its return
\* two Ready sessions that show a prompt, and nobody else at work
InitRun ==
  /\ InitDaemon
  /\ \A id \in DaemonIDs : sessions[id].Status = StatusReady

ShowPrompt(id) ==
  /\ dm.run = "new"
  /\ panes[id] = <<>>
  /\ PaneChanges(id, Pad(LongPad) \o <<">", " ">>)

NextRun ==
  \/ \E id \in DaemonIDs : ShowPrompt(id)
  \/ LoadSessions
  \/ ProcessSessions
  \/ ProcessSession
  \/ DaemonGetOutput
  \/ DaemonSendInput
  \/ DaemonGetSession
  \/ EndTick
  \/ ContextCancelled
  \/ \E why \in {"signal", "context"} : RunShutdown(why)
  \/ MonitorReturn
  \/ RunReturn
  \/ DaemonStop
  \/ DaemonStopReturn

SpecRun == InitRun /\ [][NextRun]_vars

\* ------------------------------------------- the SessionManager facade
\* the titles UpdateTitle is called with: the present one and a new one
NewTitles == {"a", "b"}

\* lines 80-85 of sessionManagerAdapter.UpdateTitle: orchestrator.GetSession,
\* which returns the cached object (loading it from storage first if it
\* is not cached), then sess.Title = title on that object
UpdateTitle(t, id, title) ==
  /\ th[t].pc = "idle"
  /\ \E found \in BOOLEAN :
       \/ /\ found
          /\ id \in DOMAIN sessions \/ StorageGetOK(id)
          /\ LET sess == IF id \in DOMAIN sessions THEN sessions[id]
                         ELSE FromSessionData(files[id])
             IN  /\ sessions' = Put(sessions, id, [sess EXCEPT !.Title = title])
                 /\ th' = [th EXCEPT ![t] = [Begin("UpdateTitle", id) EXCEPT
                                               !.pc = "t_status", !.branch = title]]
       \/ /\ ~found
          /\ id \notin DOMAIN sessions
          /\ sessions' = sessions
          /\ th' = [th EXCEPT ![t] = [Begin("UpdateTitle", id) EXCEPT
                                        !.pc = "done", !.branch = title,
                                        !.ret = "session not found"]]
  /\ UNCHANGED <<now, files, worktrees, tmuxSessions, timers, active, ncreate, known, last,
                 otherVars>>

\* line 86: return s.orchestrator.UpdateSessionStatus(ctx, id, sess.Status)
UpdateTitleStatus(t) ==
  /\ th[t].pc = "t_status"
  /\ \E res \in UpdateResults :
       /\ UpdateSessionStatus(th[t].id,
                              IF th[t].id \in DOMAIN sessions THEN sessions[th[t].id].Status
                              ELSE StatusReady, res)
       /\ th' = [th EXCEPT ![t].pc = "done", ![t].ret = res]
  /\ UNCHANGED <<worktrees, tmuxSessions, timers, active, ncreate, known, last, otherVars>>

\* another client stops the session (StopSession)
TitleSessionStopped(id) ==
  /\ id \in DOMAIN sessions
  /\ sessions' = Drop(sessions, id)
  /\ files' = Drop(files, id)
  /\ tmuxSessions' = tmuxSessions \ {id}
  /\ UNCHANGED <<now, worktrees, timers, th, active, ncreate, known, last, otherVars>>

NextTitle ==
  \/ \E t \in Callers :
       \/ \E id \in DaemonIDs, title \in NewTitles : UpdateTitle(t, id, title)
       \/ UpdateTitleStatus(t)
       \/ Return(t)
  \/ \E id \in DaemonIDs : TitleSessionStopped(id)

SpecTitle == InitDaemon /\ [][NextTitle]_vars

\* -------------------------- two lifecycle calls on one session at once
\* the session both calls are made on
LifeID == <<"a", 0>>

\* the session as CreateSession left it, or as an earlier PauseSession did
LifeSession(status) == [SessionOf(LifeID, status) EXCEPT !.UpdatedAt = 0]

\* Ready sessions have their worktree and their tmux session, Paused ones
\* have neither; the record is stored, and cached unless the orchestrator
\* is a new one. Both callers have made their call and neither has run
\* its first statement: the two calls run concurrently.
InitLife ==
  /\ now = 0
  /\ \E status \in {StatusReady, StatusPaused}, cached \in BOOLEAN :
       /\ sessions = IF cached THEN Put(EmptyMap, LifeID, LifeSession(status)) ELSE EmptyMap
       /\ files = Put(EmptyMap, LifeID, ToSessionData(LifeSession(status)))
       /\ worktrees = IF status = StatusReady THEN {LifeSession(status).Path} ELSE {}
       /\ tmuxSessions = IF status = StatusReady THEN {LifeID} ELSE {}
  /\ timers = EmptyBag
  /\ th = [t \in Callers |-> Idle]
  /\ active = Callers
  /\ ncreate = 0
  /\ known = {LifeID}
  /\ last = [t \in Callers |-> <<>>]
  /\ NewExecutor
  /\ NoDaemon

\* each caller makes one call: StartSession, ResumeSession, PauseSession
\* or StopSession, none of which holds a lock across its external calls
NextLife ==
  \E t \in Callers :
    \/ BeginStart(t, "StartSession", LifeID)
    \/ BeginStart(t, "ResumeSession", LifeID)
    \/ StartWorktree(t)
    \/ StartTmux(t)
    \/ StartUpdate(t)
    \/ BeginPause(t, LifeID)
    \/ PauseKill(t)
    \/ PauseRemove(t)
    \/ PauseUpdate(t)
    \/ BeginStop(t, LifeID)
    \/ StopKill(t)
    \/ StopRemove(t)
    \/ StopDelete(t)
    \/ StopEvict(t)

SpecLife == InitLife /\ [][NextLife]_vars

\* ------------------------------------------------- the tmux adapter
\* names are sequences of characters
TmuxPrefix == <<"c", "l", "a", "u", "d", "e", "s", "q", "u", "a", "d", "_">>

\* what the regular expression \s matches
WhiteSpace == {" ", "\t", "\n", "\r", "\f"}

\* lines 32-36, sanitizeTmuxName: white space removed, dots replaced by
\* underscores, the prefix put in front
sanitizeTmuxName(name) ==
  LET kept == SelectSeq(name, LAMBDA c : c \notin WhiteSpace)
  IN  TmuxPrefix \o [i \in 1..Len(kept) |-> IF kept[i] = "." THEN "_" ELSE kept[i]]

\* the logical names the callers use
TmuxNames == {<<"a">>, <<"a", ".", " ", "b">>, TmuxPrefix \o <<"a">>}

\* no tmux session exists; tmuxSessions holds the names the tmux server
\* knows its sessions by
InitTmux ==
  /\ now = 0
  /\ sessions = EmptyMap
  /\ files = EmptyMap
  /\ worktrees = {}
  /\ tmuxSessions = {}
  /\ timers = EmptyBag
  /\ th = [t \in Callers |-> Idle]
  /\ active = Callers
  /\ ncreate = 0
  /\ known = {}
  /\ last = [t \in Callers |-> <<>>]
  /\ NewExecutor
  /\ NoDaemon

\* lines 59-65, CreateSession(name): sanitizedName is computed, then
\* SessionExists(sanitizedName), lines 199-210, which sanitizes what it is
\* given and runs has-session; any error of has-session counts as "does
\* not exist"
TmuxSessionExists(t, name) ==
  /\ t \in active
  /\ th[t].pc = "idle"
  /\ LET sanitizedName == sanitizeTmuxName(name)
         target == sanitizeTmuxName(sanitizedName)
         c == [Idle EXCEPT !.op = "tmux.CreateSession", !.id = name,
                           !.calls = <<[svc |-> "has-session", arg |-> target,
                                        ok |-> target \in tmuxSessions]>>]
     IN  th' = [th EXCEPT ![t] =
                  IF target \in tmuxSessions
                  THEN [c EXCEPT !.pc = "done", !.ret = "session already exists"]
                  ELSE [c EXCEPT !.pc = "tm_new"]]
  /\ UNCHANGED <<now, sessions, files, worktrees, tmuxSessions, timers, active, ncreate, known, last, otherVars>>

\* lines 67-78: new-session -d -s sanitizedName; tmux refuses a name that
\* is taken
TmuxNewSession(t) ==
  /\ th[t].pc = "tm_new"
  /\ LET sanitizedName == sanitizeTmuxName(th[t].id)
     IN  \/ /\ sanitizedName \notin tmuxSessions
            /\ tmuxSessions' = tmuxSessions \cup {sanitizedName}
            /\ th' = [th EXCEPT ![t].pc = "tm_get",
                                ![t].calls = Call(t, "new-session", sanitizedName, TRUE)]
         \/ /\ tmuxSessions' = tmuxSessions
            /\ th' = [th EXCEPT ![t].pc = "done", ![t].ret = "failed to create session",
                                ![t].calls = Call(t, "new-session", sanitizedName, FALSE)]
  /\ UNCHANGED <<now, sessions, files, worktrees, timers, active, ncreate, known, last, otherVars>>

\* line 80 and lines 172-187: return s.GetSession(ctx, sanitizedName),
\* which sanitizes what it is given and looks that name up in the list
TmuxGetSession(t) ==
  /\ th[t].pc = "tm_get"
  /\ LET target == sanitizeTmuxName(sanitizeTmuxName(th[t].id))
     IN  \/ /\ target \in tmuxSessions
            /\ th' = [th EXCEPT ![t].pc = "tm_created", ![t].ret = "ok",
                                ![t].session = [Name |-> target],
                                ![t].calls = Call(t, "ls", target, TRUE)]
         \/ /\ target \notin tmuxSessions
            /\ th' = [th EXCEPT ![t].pc = "done", ![t].ret = "session not found",
                                ![t].calls = Call(t, "ls", target, FALSE)]
         \/ /\ th' = [th EXCEPT ![t].pc = "done", ![t].ret = "failed to list sessions",
                                ![t].calls = Call(t, "ls", target, FALSE)]
  /\ UNCHANGED <<now, sessions, files, worktrees, tmuxSessions, timers, active, ncreate, known, last, otherVars>>

\* part_008:133-138 and lines 432-439: the orchestrator's
\* SendKeys(tmuxSession.Name, prompt); SendKeys sanitizes what it is given
TmuxSendKeys(t) ==
  /\ th[t].pc = "tm_created"
  /\ LET target == sanitizeTmuxName(th[t].session.Name)
     IN  th' = [th EXCEPT ![t].pc = "tm_sent",
                          ![t].calls = Call(t, "send-keys", target, target \in tmuxSessions)]
  /\ UNCHANGED <<now, sessions, files, worktrees, tmuxSessions, timers, active, ncreate, known, last, otherVars>>

\* part_008:155-158 and lines 118-128: the orchestrator's
\* KillSession(tmuxSession.Name) when storage.Create has failed;
\* KillSession sanitizes what it is given
TmuxKillSession(t) ==
  /\ th[t].pc \in {"tm_created", "tm_sent"}
  /\ LET target == sanitizeTmuxName(th[t].session.Name)
     IN  /\ tmuxSessions' = tmuxSessions \ {target}
         /\ th' = [th EXCEPT ![t].pc = "done",
                             ![t].calls = Call(t, "kill-session", target, target \in tmuxSessions)]
  /\ UNCHANGED <<now, sessions, files, worktrees, timers, active, ncreate, known, last, otherVars>>

NextTmux ==
  \E t \in Callers :
    \/ \E name \in TmuxNames : TmuxSessionExists(t, name)
    \/ TmuxNewSession(t)
    \/ TmuxGetSession(t)
    \/ TmuxSendKeys(t)
    \/ TmuxKillSession(t)
    \/ Return(t)

SpecTmux == InitTmux /\ [][NextTmux]_vars

\* --------------------------------------------- the git workspace adapter
\* the adapter runs every git command through executor.Execute; caller t
\* of the adapter is caller t of the executor. th[t].branch is the form
\* of "worktree add" chosen, th[t].calls the commands run so far.
GitRunning == {"g_verify", "g_add", "g_branch", "g_hash", "g_remove"}

\* a panic that nothing recovers ends the process
GitAlive == \A t \in Callers : th[t].ret # "panic"

\* what Execute has returned for the command: (nil, ctx.Err()) when the
\* context was done at the semaphore, else (result, nil) with the exit
\* code in result.ExitCode
GitResult(t, command) ==
  Append(th[t].calls,
         [svc |-> command,
          arg |-> [err |-> IF ecall[t].ret = "ctx.Err" THEN "ctx.Err" ELSE "nil",
                   exit |-> ecall[t].exitCode],
          ok |-> ecall[t].ret = "result" /\ ecall[t].exitCode = 0])

InitGit ==
  /\ now = 0
  /\ sessions = EmptyMap
  /\ files = EmptyMap
  /\ worktrees \in SUBSET {"w"}
  /\ tmuxSessions = {}
  /\ timers = EmptyBag
  /\ th = [t \in Callers |-> Idle]
  /\ active = Callers
  /\ ncreate = 0
  /\ known = {}
  /\ last = [t \in Callers |-> <<>>]
  /\ NewExecutor
  /\ NoDaemon

\* git/exec_adapter.go:257-262, CreateWorktree is entered and builds
\* "git rev-parse --verify branch"
GitCreateWorktree(t, path) ==
  /\ GitAlive
  /\ t \in active
  /\ th[t].pc = "idle"
  /\ th' = [th EXCEPT ![t] = [Idle EXCEPT !.op = "git.CreateWorktree", !.wpath = path,
                                          !.pc = "g_verify"]]
  /\ UNCHANGED <<now, sessions, files, worktrees, tmuxSessions, timers, active, ncreate, known, last, otherVars>>

\* git/exec_adapter.go:348-358, RemoveWorktree is entered and builds
\* "git worktree remove [-f] path"
GitRemoveWorktree(t, path) ==
  /\ GitAlive
  /\ t \in active
  /\ th[t].pc = "idle"
  /\ th' = [th EXCEPT ![t] = [Idle EXCEPT !.op = "git.RemoveWorktree", !.wpath = path,
                                          !.pc = "g_remove"]]
  /\ UNCHANGED <<now, sessions, files, worktrees, tmuxSessions, timers, active, ncreate, known, last, otherVars>>

\* g.executor.Execute(ctx, cmd) is called with the command built; code is
\* the exit code git will end with
GitExecute(t, code) ==
  /\ GitAlive
  /\ th[t].pc \in GitRunning
  /\ Execute(t, code)

\* lines 264-274: branchExists := err == nil, and the form of
\* "worktree add" chosen by it
GitVerified(t) ==
  /\ th[t].pc = "g_verify"
  /\ ecall[t].pc = "done"
  /\ th' = [th EXCEPT ![t].pc = "g_add",
                      ![t].branch = IF ecall[t].ret # "ctx.Err" THEN "existing" ELSE "new",
                      ![t].calls = GitResult(t, "rev-parse --verify")]
  /\ ecall' = [ecall EXCEPT ![t] = ExecIdle]
  /\ UNCHANGED <<now, sessions, files, worktrees, tmuxSessions, timers, active, ncreate, known, last,
                 sem, streams, opts, streamVars, tableVars, daemonVars>>

\* lines 281-287: if err != nil the error is formatted with result.Stderr,
\* and result is nil whenever err is not: a nil dereference. Else
\* GetWorktreeInfo is called. git has added the worktree when it exited 0.
GitAdded(t) ==
  /\ th[t].pc = "g_add"
  /\ ecall[t].pc = "done"
  /\ th' = [th EXCEPT ![t].pc = IF ecall[t].ret = "ctx.Err" THEN "done" ELSE "g_branch",
                      ![t].ret = IF ecall[t].ret = "ctx.Err" THEN "panic" ELSE "none",
                      ![t].calls = GitResult(t, "worktree add")]
  /\ worktrees' = IF ecall[t].ret = "result" /\ ecall[t].exitCode = 0
                  THEN worktrees \cup {th[t].wpath} ELSE worktrees
  /\ ecall' = [ecall EXCEPT ![t] = ExecIdle]
  /\ UNCHANGED <<now, sessions, files, tmuxSessions, timers, active, ncreate, known, last,
                 sem, streams, opts, streamVars, tableVars, daemonVars>>

\* lines 369-379, GetWorktreeInfo: "git branch --show-current";
\* branchResult.Stdout is read before err is looked at
GitInfoBranch(t) ==
  /\ th[t].pc = "g_branch"
  /\ ecall[t].pc = "done"
  /\ th' = [th EXCEPT ![t].pc = IF ecall[t].ret = "ctx.Err" THEN "done" ELSE "g_hash",
                      ![t].ret = IF ecall[t].ret = "ctx.Err" THEN "panic" ELSE "none",
                      ![t].calls = GitResult(t, "branch --show-current")]
  /\ ecall' = [ecall EXCEPT ![t] = ExecIdle]
  /\ UNCHANGED <<now, sessions, files, worktrees, tmuxSessions, timers, active, ncreate, known, last,
                 sem, streams, opts, streamVars, tableVars, daemonVars>>

\* lines 381-399, GetWorktreeInfo: "git rev-parse HEAD"; an error of
\* Execute is returned, else the Worktree
GitInfoHash(t) ==
  /\ th[t].pc = "g_hash"
  /\ ecall[t].pc = "done"
  /\ th' = [th EXCEPT ![t].pc = "done",
                      ![t].ret = IF ecall[t].ret = "ctx.Err"
                                 THEN "failed to get HEAD hash" ELSE "ok",
                      ![t].calls = GitResult(t, "rev-parse HEAD")]
  /\ ecall' = [ecall EXCEPT ![t] = ExecIdle]
  /\ UNCHANGED <<now, sessions, files, worktrees, tmuxSessions, timers, active, ncreate, known, last,
                 sem, streams, opts, streamVars, tableVars, daemonVars>>

\* lines 360-365, RemoveWorktree: the same use of result.Stderr when err
\* is not nil, else nil is returned. git has removed the worktree when
\* it exited 0.
GitRemoved(t) ==
  /\ th[t].pc = "g_remove"
  /\ ecall[t].pc = "done"
  /\ th' = [th EXCEPT ![t].pc = "done",
                      ![t].ret = IF ecall[t].ret = "ctx.Err" THEN "panic" ELSE "ok",
                      ![t].calls = GitResult(t, "worktree remove")]
  /\ worktrees' = IF ecall[t].ret = "result" /\ ecall[t].exitCode = 0
                  THEN worktrees \ {th[t].wpath} ELSE worktrees
  /\ ecall' = [ecall EXCEPT ![t] = ExecIdle]
  /\ UNCHANGED <<now, sessions, files, tmuxSessions, timers, active, ncreate, known, last,
                 sem, streams, opts, streamVars, tableVars, daemonVars>>

NextGit ==
  \E t \in Callers :
    \/ GitCreateWorktree(t, "w")
    \/ GitRemoveWorktree(t, "w")
    \/ \E code \in ProgramExitCodes : GitExecute(t, code)
    \/ ExecuteRun(t)
    \/ ExecuteExit(t)
    \/ ExecuteReturn(t)
    \/ GitVerified(t)
    \/ GitAdded(t)
    \/ GitInfoBranch(t)
    \/ GitInfoHash(t)
    \/ GitRemoved(t)

SpecGit == InitGit /\ [][NextGit]_vars

\* --------------------------------------------- the JSON repository lock
\* r.mu is a sync.RWMutex: not reentrant. Who holds it follows from where
\* the callers are: DeleteAll, Restore and Update hold it for writing
\* from their Lock to their return, Get for reading. A Restore that is
\* inside its call of DeleteAll still holds the Lock of line 473.
RepoHolds(t) ==
  IF \/ th[t].pc \in {"da_remove", "rs_clear", "upd_write"}
     \/ (th[t].op = "storage.Restore" /\ th[t].pc = "da_lock")
  THEN "write"
  ELSE IF th[t].pc = "get_read" THEN "read" ELSE "none"

\* the files of the backup directory Restore copies
BackupFiles == Put(EmptyMap, LifeID, ToSessionData(LifeSession(StatusPaused)))

InitRepo ==
  /\ now = 0
  /\ sessions = EmptyMap
  /\ files \in {EmptyMap, Put(EmptyMap, LifeID, ToSessionData(LifeSession(StatusReady)))}
  /\ worktrees = {}
  /\ tmuxSessions = {}
  /\ timers = EmptyBag
  /\ th = [t \in Callers |-> Idle]
  /\ active = Callers
  /\ ncreate = 0
  /\ known = {}
  /\ last = [t \in Callers |-> <<>>]
  /\ NewExecutor
  /\ NoDaemon

\* DeleteAll (line 401), Restore (line 472) or UpdateStatus (line 328) is
\* called and arrives at its first r.mu.Lock() or, through Get, RLock()
RepoCall(t, op) ==
  /\ t \in active
  /\ th[t].pc = "idle"
  /\ th' = [th EXCEPT ![t] =
       [Idle EXCEPT !.op = op, !.id = LifeID,
                    !.pc = CASE op = "storage.DeleteAll" -> "da_lock"
                             [] op = "storage.Restore" -> "rs_lock"
                             [] op = "storage.UpdateStatus" -> "get_rlock"]]
  /\ UNCHANGED <<now, sessions, files, worktrees, tmuxSessions, timers, active, ncreate, known, last, otherVars>>

\* r.mu.Lock() returns when nobody holds the lock, r.mu.RLock() when
\* nobody holds it for writing
RepoAcquire(t) ==
  /\ th[t].pc \in {"da_lock", "rs_lock", "upd_lock", "get_rlock"}
  /\ IF th[t].pc = "get_rlock"
     THEN \A u \in Callers : RepoHolds(u) # "write"
     ELSE \A u \in Callers : RepoHolds(u) = "none"
  /\ th' = [th EXCEPT ![t].pc = CASE th[t].pc = "da_lock" -> "da_remove"
                                  [] th[t].pc = "rs_lock" -> "rs_clear"
                                  [] th[t].pc = "upd_lock" -> "upd_write"
                                  [] th[t].pc = "get_rlock" -> "get_read"]
  /\ UNCHANGED <<now, sessions, files, worktrees, tmuxSessions, timers, active, ncreate, known, last, otherVars>>

\* lines 476-479, Restore, holding the lock, calls r.DeleteAll(ctx), which
\* begins with r.mu.Lock()
RestoreClear(t) ==
  /\ th[t].pc = "rs_clear"
  /\ th' = [th EXCEPT ![t].pc = "da_lock"]
  /\ UNCHANGED <<now, sessions, files, worktrees, tmuxSessions, timers, active, ncreate, known, last, otherVars>>

\* lines 405-416, DeleteAll removes every file and returns, unlocking.
\* Called by Restore, it returns into lines 481-505, which copy the
\* backup files; Restore then returns, unlocking.
DeleteAllRemove(t) ==
  /\ th[t].pc = "da_remove"
  /\ files' = IF th[t].op = "storage.Restore" THEN BackupFiles ELSE EmptyMap
  /\ th' = Done(t, "ok")
  /\ UNCHANGED <<now, sessions, worktrees, tmuxSessions, timers, active, ncreate, known, last, otherVars>>

\* lines 328-332 and 85-105, UpdateStatus calls Get: the file is read
\* under RLock, which is released when Get returns
RepoGet(t) ==
  /\ th[t].pc = "get_read"
  /\ th' = [th EXCEPT ![t] =
       IF StorageGetOK(th[t].id)
       THEN [th[t] EXCEPT !.pc = "upd_lock", !.session = files[th[t].id]]
       ELSE [th[t] EXCEPT !.pc = "done", !.ret = "session not found"]]
  /\ UNCHANGED <<now, sessions, files, worktrees, tmuxSessions, timers, active, ncreate, known, last, otherVars>>

\* lines 334-337 and 107-134, UpdateStatus calls Update with the record
\* it read: written back whole, under Lock, if the file still exists
RepoUpdate(t, status) ==
  /\ th[t].pc = "upd_write"
  /\ IF StorageGetOK(th[t].id)
     THEN /\ files' = Put(files, th[t].id,
                          [th[t].session EXCEPT !.Status = status, !.UpdatedAt = now])
          /\ th' = Done(t, "ok")
     ELSE /\ files' = files
          /\ th' = Done(t, "session not found")
  /\ UNCHANGED <<now, sessions, worktrees, tmuxSessions, timers, active, ncreate, known, last, otherVars>>

NextRepo ==
  \E t \in Callers :
    \/ \E op \in {"storage.DeleteAll", "storage.Restore", "storage.UpdateStatus"} : RepoCall(t, op)
    \/ RepoAcquire(t)
    \/ RestoreClear(t)
    \/ DeleteAllRemove(t)
    \/ RepoGet(t)
    \/ \E status \in {StatusReady, StatusPaused} : RepoUpdate(t, status)
    \/ Return(t)

SpecRepo == InitRepo /\ [][NextRepo]_vars

\* ----------------------- the session cache lock and the process table lock
\* what an operation does between its locks and unlocks, in the order of
\* its source: o.mu is the orchestrator's RWMutex over the session cache,
\* procMutex the executor's over runningProcs
Ins(do, mu) == [do |-> do, mu |-> mu]

\* programs in which an operation of the one component calls into the
\* other while holding its own lock
LockProgramsNested ==
  [UpdateSessionStatus |->
     <<Ins("Lock", "o.mu"), Ins("session.Status = status", "none"),
       Ins("Lock", "procMutex"), Ins("info.state = exited", "none"), Ins("Unlock", "procMutex"),
       Ins("Unlock", "o.mu")>>,
   Kill |->
     <<Ins("Process.Kill", "none"), Ins("Lock", "procMutex"),
       Ins("Lock", "o.mu"), Ins("session.Status = status", "none"), Ins("Unlock", "o.mu"),
       Ins("Unlock", "procMutex")>>]

\* part_008:371-385 UpdateSessionStatus, 261-297 GetSession on a cache
\* miss, 230-258 StopSession; exec_adapter.go:998-1031 Start, 1081-1092
\* FindProcess, 1123-1134 Kill, 1136-1161 Wait
LockPrograms ==
  [UpdateSessionStatus |->
     <<Ins("Lock", "o.mu"), Ins("session.Status = status", "none"),
       Ins("storage.UpdateStatus", "none"), Ins("Unlock", "o.mu")>>,
   GetSession |->
     <<Ins("RLock", "o.mu"), Ins("o.sessions[id]", "none"), Ins("RUnlock", "o.mu"),
       Ins("storage.Get", "none"),
       Ins("Lock", "o.mu"), Ins("o.sessions[id] = session", "none"), Ins("Unlock", "o.mu")>>,
   StopSession |->
     <<Ins("RLock", "o.mu"), Ins("o.sessions[id]", "none"), Ins("RUnlock", "o.mu"),
       Ins("tmux.KillSession", "none"), Ins("git.RemoveWorktree", "none"),
       Ins("storage.Delete", "none"),
       Ins("Lock", "o.mu"), Ins("delete(o.sessions, id)", "none"), Ins("Unlock", "o.mu")>>,
   Start |->
     <<Ins("cmd.Start", "none"),
       Ins("Lock", "procMutex"), Ins("runningProcs[handle] = info", "none"),
       Ins("Unlock", "procMutex")>>,
   FindProcess |->
     <<Ins("RLock", "procMutex"), Ins("range runningProcs", "none"), Ins("RUnlock", "procMutex")>>,
   Kill |->
     <<Ins("Process.Kill", "none"),
       Ins("Lock", "procMutex"), Ins("info.state = exited", "none"), Ins("Unlock", "procMutex")>>,
   Wait |->
     <<Ins("cmd.Wait", "none"),
       Ins("Lock", "procMutex"), Ins("delete(runningProcs, h)", "none"),
       Ins("Unlock", "procMutex")>>]

\* how caller t holds mutex mu: by the last Lock, RLock or Unlock of mu
\* among the instructions it has executed
LockHeld(t, mu) ==
  LET on == {i \in 1..Len(th[t].calls) : th[t].calls[i].arg = mu}
  IN  IF on = {} THEN "none"
      ELSE LET latest == CHOOSE i \in on : \A j \in on : j <= i
           IN  CASE th[t].calls[latest].svc = "Lock" -> "write"
                 [] th[t].calls[latest].svc = "RLock" -> "read"
                 [] OTHER -> "none"

\* the instruction caller t is at
LockNext(t) == LockPrograms[th[t].op][Len(th[t].calls) + 1]

InitLocks ==
  /\ now = 0
  /\ sessions = EmptyMap
  /\ files = EmptyMap
  /\ worktrees = {}
  /\ tmuxSessions = {}
  /\ timers = EmptyBag
  /\ th = [t \in Callers |-> Idle]
  /\ active = Callers
  /\ ncreate = 0
  /\ known = {}
  /\ last = [t \in Callers |-> <<>>]
  /\ NewExecutor
  /\ NoDaemon

\* an operation is called
LockCall(t, op) ==
  /\ t \in active
  /\ th[t].pc = "idle"
  /\ th' = [th EXCEPT ![t] = [Idle EXCEPT !.op = op, !.pc = "lk_run"]]
  /\ UNCHANGED <<now, sessions, files, worktrees, tmuxSessions, timers, active, ncreate, known, last, otherVars>>

\* the operation executes its next instruction: Lock waits until nobody
\* holds the mutex, RLock until nobody holds it for writing; after the
\* last instruction the operation returns
LockStep(t) ==
  /\ th[t].pc = "lk_run"
  /\ LET ins == LockNext(t)
     IN  /\ ins.do = "Lock" => \A u \in Callers : LockHeld(u, ins.mu) = "none"
         /\ ins.do = "RLock" => \A u \in Callers : LockHeld(u, ins.mu) # "write"
         /\ th' = [th EXCEPT ![t].calls = Call(t, ins.do, ins.mu, TRUE),
                             ![t].pc = IF Len(th[t].calls) + 1 = Len(LockPrograms[th[t].op])
                                       THEN "done" ELSE "lk_run",
                             ![t].ret = IF Len(th[t].calls) + 1 = Len(LockPrograms[th[t].op])
                                        THEN "ok" ELSE "none"]
  /\ UNCHANGED <<now, sessions, files, worktrees, tmuxSessions, timers, active, ncreate, known, last, otherVars>>

NextLocks ==
  \E t \in Callers :
    \/ \E op \in DOMAIN LockPrograms : LockCall(t, op)
    \/ LockStep(t)

SpecLocks == InitLocks /\ [][NextLocks]_vars

\* ------------------------- CreateSession next to PauseSession and resume
\* the session that a CreateSession for Title "a" and repository "repo"
\* left in second 0
RollbackSession(status) ==
  [LifeSession(status) EXCEPT !.Path = WorktreePath("repo", LifeID)]

\* A session was created in second 0, which has not passed: its promotion
\* goroutine is still asleep. It is Loading with its worktree and its tmux
\* session, or a PauseSession has already taken both away. Its
\* CreateSession is the first of the calls that ncreate counts.
InitRollback ==
  /\ now = 0
  /\ \E status \in {StatusLoading, StatusPaused} :
       /\ sessions = Put(EmptyMap, LifeID, RollbackSession(status))
       /\ files = Put(EmptyMap, LifeID, ToSessionData(RollbackSession(status)))
       /\ worktrees = IF status = StatusLoading THEN {RollbackSession(status).Path} ELSE {}
       /\ tmuxSessions = IF status = StatusLoading THEN {LifeID} ELSE {}
  /\ timers = SetToBag({[id |-> LifeID, due |-> PromotionDelay]})
  /\ th = [t \in Callers |-> Idle]
  /\ active = Callers
  /\ ncreate = 1
  /\ known = {LifeID}
  /\ last = [t \in Callers |-> <<>>]
  /\ NewExecutor
  /\ NoDaemon

\* the first caller creates a session of the same Title while the others
\* pause and resume the stored one, one call after the other; the clock
\* and the promotion goroutine run
NextRollback ==
  \/ Tick
  \/ \E t \in Callers :
       \/ /\ \A u \in Callers : t <= u
          /\ \E r \in SameTitleRequests : BeginCreate(t, r)
       \/ CreateIsRepo(t)
       \/ CreateBranch(t)
       \/ CreateWorktree(t)
       \/ CreateTmux(t)
       \/ CreateUndoWorktree(t)
       \/ CreatePrompt(t)
       \/ CreateStore(t)
       \/ CreateUndoTmux(t)
       \/ CreateUndoBoth(t)
       \/ CreateCache(t)
       \/ /\ \E u \in Callers : u < t
          /\ BeginStart(t, "ResumeSession", LifeID)
       \/ StartWorktree(t)
       \/ StartTmux(t)
       \/ StartUpdate(t)
       \/ /\ \E u \in Callers : u < t
          /\ BeginPause(t, LifeID)
       \/ PauseKill(t)
       \/ PauseRemove(t)
       \/ PauseUpdate(t)
       \/ Return(t)
  \/ \E tm \in BagToSet(timers) : PromotionTimer(tm)

SpecRollback == InitRollback /\ [][NextRollback]_vars

\* ================================================================ claims
Range(q) == {q[i] : i \in 1..Len(q)}
Services(c) == {x.svc : x \in Range(c.calls)}
TmuxCalls == {"tmux.CreateSession", "tmux.KillSession", "tmux.SendKeys"}
GitCalls == {"git.IsGitRepository", "git.CreateBranch", "git.GetCurrentBranch",
             "git.CreateWorktree", "git.RemoveWorktree"}
StorageCalls == {"storage.Create", "storage.Delete"}

Returned(t, op) == th[t].pc = "done" /\ th[t].op = op

\* ---- C1
PersistFailed(t) ==
  /\ Returned(t, "CreateSession")
  /\ [svc |-> "storage.Create", arg |-> th[t].id, ok |-> FALSE] \in Range(th[t].calls)

\* C1: when storage.Create fails in CreateSession (worktree and tmux session
\* exist), the call kills the tmux session, then force-removes the worktree,
\* then returns the error; the cache and the storage hold the IDs they held
\* before the call; and when both teardown calls succeed neither the
\* worktree nor the tmux session of the call exists once it has returned.
C1_PersistFailureRollsBack ==
  \A t \in Callers : PersistFailed(t) =>
    LET c == th[t]
        n == Len(c.calls)
    IN  /\ c.ret = "failed to save session"
        /\ n >= 3
        /\ c.calls[n - 2] = [svc |-> "storage.Create", arg |-> c.id, ok |-> FALSE]
        /\ c.calls[n - 1].svc = "tmux.KillSession"
        /\ c.calls[n - 1].arg = c.id
        /\ c.calls[n].svc = "git.RemoveWorktree"
        /\ c.calls[n].arg = [path |-> c.wpath, force |-> TRUE]
        /\ DOMAIN sessions = c.preCache
        /\ DOMAIN files = c.preFiles
        /\ (c.calls[n - 1].ok /\ c.calls[n].ok) =>
             (c.wpath \notin worktrees /\ c.id \notin tmuxSessions)

C1_Witness ==
  \E t \in Callers :
    /\ PersistFailed(t)
    /\ th[t].calls[Len(th[t].calls)].ok
    /\ th[t].calls[Len(th[t].calls) - 1].ok
    /\ th[t].wpath \notin worktrees

\* ---- C2
TmuxCreateFailed(t) ==
  /\ Returned(t, "CreateSession")
  /\ [svc |-> "tmux.CreateSession", arg |-> th[t].id, ok |-> FALSE] \in Range(th[t].calls)

\* C2 as stated: after a failed tmuxService.CreateSession the worktree of
\* the call is gone when CreateSession returns, storage.Create was never
\* called and the cache has no new entry.
C2_WorkspaceGoneAfterTmuxFailure ==
  \A t \in Callers : TmuxCreateFailed(t) =>
    /\ th[t].wpath \notin worktrees
    /\ "storage.Create" \notin Services(th[t])
    /\ DOMAIN sessions = th[t].preCache

\* C2 amended: after a failed tmuxService.CreateSession the call asks the
\* Workspace Service to force-remove the worktree before it returns the
\* error, and the worktree is gone when that removal succeeds;
\* storage.Create is never called and the cache has no new entry.
C2_WorkspaceRemovalRequested ==
  \A t \in Callers : TmuxCreateFailed(t) =>
    LET c == th[t]
        n == Len(c.calls)
    IN  /\ c.ret = "failed to create tmux session"
        /\ n >= 2
        /\ c.calls[n - 1] = [svc |-> "tmux.CreateSession", arg |-> c.id, ok |-> FALSE]
        /\ c.calls[n].svc = "git.RemoveWorktree"
        /\ c.calls[n].arg = [path |-> c.wpath, force |-> TRUE]
        /\ c.calls[n].ok => c.wpath \notin worktrees
        /\ Services(c) \cap StorageCalls = {}
        /\ DOMAIN sessions = c.preCache
        /\ DOMAIN files = c.preFiles

C2_Witness ==
  \E t \in Callers :
    /\ TmuxCreateFailed(t)
    /\ th[t].calls[Len(th[t].calls)].ok
    /\ th[t].wpath \notin worktrees

\* ---- C3
WorktreeCreateFailed(t) ==
  /\ Returned(t, "CreateSession")
  /\ \E x \in Range(th[t].calls) : x.svc = "git.CreateWorktree" /\ ~x.ok

\* C3: after a failed gitService.CreateWorktree CreateSession returns that
\* error at once: the failed call is its last external call, no Process
\* Backend call and no Persistence call was made, and the cache and the
\* storage hold the IDs they held before the call.
C3_WorktreeFailureStopsCreate ==
  \A t \in Callers : WorktreeCreateFailed(t) =>
    LET c == th[t]
    IN  /\ c.ret = "failed to create worktree"
        /\ c.calls[Len(c.calls)].svc = "git.CreateWorktree"
        /\ Services(c) \cap TmuxCalls = {}
        /\ Services(c) \cap StorageCalls = {}
        /\ DOMAIN sessions = c.preCache
        /\ DOMAIN files = c.preFiles

C3_Witness ==
  \E t \in Callers :
    /\ WorktreeCreateFailed(t)
    /\ th[t].ret = "failed to create worktree"

\* ---- C4
WorkspacesOf(id) == {w \in worktrees : w[3] = id}
BackendSessionsOf(id) == {n \in tmuxSessions : n = id}

\* C4: in the state a successful CreateSession returns in, exactly one
\* worktree and exactly one tmux session exist for the returned ID and the
\* cached record equals the persisted record in every field, CreatedAt and
\* UpdatedAt included.
C4_CreatedCacheEqualsPersisted ==
  [][\A t \in Callers :
       (th[t].pc = "c_cache" /\ th'[t].pc = "done" /\ th'[t].ret = "ok") =>
         LET id == th[t].id
         IN  /\ Cardinality({w \in worktrees' : w[3] = id}) = 1
             /\ Cardinality({n \in tmuxSessions' : n = id}) = 1
             /\ id \in DOMAIN sessions'
             /\ id \in DOMAIN files'
             /\ ToSessionData(sessions'[id]) = files'[id]]_vars

\* ---- C5
Quiescent == \A t \in Callers : th[t].pc \in {"idle", "done"}

\* C5: whenever no orchestrator operation is in progress, a cached session
\* that is Ready, Running or Loading has exactly one live worktree and
\* exactly one live tmux session, and a Paused one has neither.
C5_StatusResourceInvariant ==
  Quiescent =>
    \A id \in DOMAIN sessions :
      /\ sessions[id].Status \in {StatusReady, StatusRunning, StatusLoading} =>
           /\ Cardinality(WorkspacesOf(id)) = 1
           /\ Cardinality(BackendSessionsOf(id)) = 1
      /\ sessions[id].Status = StatusPaused =>
           /\ WorkspacesOf(id) = {}
           /\ BackendSessionsOf(id) = {}

\* ---- C6
\* C6: a cached session's Status goes from Paused to Ready only in the step
\* in which a StartSession/ResumeSession on that session completes with
\* success.
C6_PausedToReadyOnlyByResume ==
  [][\A id \in DOMAIN sessions :
       (/\ sessions[id].Status = StatusPaused
        /\ id \in DOMAIN sessions'
        /\ sessions'[id].Status = StatusReady) =>
         \E t \in Callers :
           /\ th[t].op \in {"StartSession", "ResumeSession"}
           /\ th[t].id = id
           /\ th[t].pc = "s_update"
           /\ th'[t].pc = "done"]_vars

\* ---- C7
SecondStop(t) == Returned(t, "StopSession") /\ th[t].again

\* C7: a StopSession that directly follows a successful StopSession of the
\* same caller on the same ID returns "session not found" and has called
\* neither the Process Backend nor the Workspace Service nor storage.Delete.
C7_SecondStopNotFound ==
  \A t \in Callers : SecondStop(t) =>
    /\ th[t].ret = "session not found"
    /\ th[t].calls = <<>>
    /\ th[t].id \notin DOMAIN sessions
    /\ th[t].id \notin DOMAIN files

C7_Witness == \E t \in Callers : SecondStop(t) /\ th[t].ret = "session not found"

\* ---- C8
StopSucceeded(t) == Returned(t, "StopSession") /\ th[t].ret = "ok"

Succeeded(c, svc) == \E x \in Range(c.calls) : x.svc = svc /\ x.ok

\* C8 as stated: once StopSession has returned success the session is in
\* no ListSessions result and not in the cache, and neither its worktree
\* nor its tmux session exists.
C8_StopLeavesNothing ==
  \A t \in Callers : StopSucceeded(t) =>
    /\ \A r \in ListSessions : r.ID # th[t].id
    /\ th[t].id \notin DOMAIN sessions
    /\ th[t].session.Path \notin worktrees
    /\ th[t].id \notin tmuxSessions

\* C8 amended: once StopSession has returned success the session is in no
\* ListSessions result and not in the cache; its tmux session is gone if
\* KillSession succeeded and its worktree is gone if RemoveWorktree
\* succeeded (a failure of either is only printed).
C8_StopRemovesRecord ==
  \A t \in Callers : StopSucceeded(t) =>
    /\ \A r \in ListSessions : r.ID # th[t].id
    /\ th[t].id \notin DOMAIN files
    /\ th[t].id \notin DOMAIN sessions
    /\ Succeeded(th[t], "tmux.KillSession") => th[t].id \notin tmuxSessions
    /\ Succeeded(th[t], "git.RemoveWorktree") => th[t].session.Path \notin worktrees
    /\ [svc |-> "git.RemoveWorktree",
        arg |-> [path |-> th[t].session.Path, force |-> TRUE],
        ok |-> Succeeded(th[t], "git.RemoveWorktree")] \in Range(th[t].calls)

C8_Witness ==
  \E t \in Callers :
    /\ StopSucceeded(t)
    /\ Succeeded(th[t], "tmux.KillSession")
    /\ ~Succeeded(th[t], "git.RemoveWorktree")
    /\ th[t].session.Path \in worktrees

\* ---- C9
\* C9: a StartSession or ResumeSession that finds the session in a status
\* other than Paused returns "session is not paused" in the same step,
\* having made no external call, and that step changes neither the cache
\* nor the storage nor the external resources.
C9_StartRequiresPaused ==
  [][\A t \in Callers :
       (/\ th[t].pc = "idle"
        /\ th'[t].op \in {"StartSession", "ResumeSession"}
        /\ th'[t].id \in DOMAIN sessions
        /\ sessions[th'[t].id].Status # StatusPaused) =>
         /\ th'[t].pc = "done"
         /\ th'[t].ret = "session is not paused"
         /\ th'[t].calls = <<>>
         /\ sessions' = sessions
         /\ files' = files
         /\ worktrees' = worktrees
         /\ tmuxSessions' = tmuxSessions]_vars

C9_Witness ==
  \E t \in Callers :
    /\ Returned(t, "ResumeSession")
    /\ th[t].ret = "session is not paused"
    /\ sessions[th[t].id].Status = StatusReady

\* ---- C10
\* C10: a PauseSession on a session that is not Paused goes on to
\* UpdateSessionStatus(Paused) whatever KillSession and RemoveWorktree
\* return; that step sets the cached Status to Paused, its result is the
\* result PauseSession returns, and when it is success the persisted
\* Status is Paused as well.
C10_PauseDespiteTeardownFailure ==
  [][\A t \in Callers :
       /\ (th[t].pc = "p_kill" /\ th'[t] # th[t]) => th'[t].pc = "p_remove"
       /\ (th[t].pc = "p_remove" /\ th'[t] # th[t]) => th'[t].pc = "p_update"
       /\ (th[t].pc = "p_update" /\ th'[t] # th[t]) =>
            /\ th'[t].pc = "done"
            /\ th'[t].ret \in UpdateResults
            /\ th[t].id \in DOMAIN sessions =>
                 sessions'[th[t].id].Status = StatusPaused
            /\ th'[t].ret = "ok" =>
                 /\ sessions'[th[t].id].Status = StatusPaused
                 /\ files'[th[t].id].Status = StatusPaused
                 /\ files'[th[t].id].Branch = th[t].session.Branch]_vars

C10_Witness ==
  \E t \in Callers :
    /\ Returned(t, "PauseSession")
    /\ th[t].ret = "ok"
    /\ [svc |-> "tmux.KillSession", arg |-> th[t].id, ok |-> FALSE] \in Range(th[t].calls)
    /\ \E x \in Range(th[t].calls) : x.svc = "git.RemoveWorktree" /\ ~x.ok
    /\ sessions[th[t].id].Status = StatusPaused
    /\ files[th[t].id].Status = StatusPaused

\* ---- C11
AllCallsSucceeded(c) ==
  /\ \A i \in 1..Len(c.calls) : c.calls[i].ok
  /\ c.ret # "storage update failed"

\* a ResumeSession/StartSession that has returned and directly follows the
\* same caller's successful PauseSession of the same, then Ready, session
ResumedAfterPause(t) ==
  /\ th[t].pc = "done"
  /\ th[t].op \in {"ResumeSession", "StartSession"}
  /\ th[t].again

\* C11: when a Ready session is paused and then resumed and no external
\* call fails, the resume returns success with the session Ready in the
\* cache and in storage, ID and Branch being those the paused record had;
\* and a GetOutput that finds the session Paused returns an error without
\* calling the Process Backend.
C11_PauseResumeRoundTrip ==
  \A t \in Callers :
    /\ (ResumedAfterPause(t) /\ AllCallsSucceeded(th[t])) =>
         /\ th[t].ret = "ok"
         /\ th[t].id \in DOMAIN sessions /\ th[t].id \in DOMAIN files
         /\ sessions[th[t].id].Status = StatusReady
         /\ files[th[t].id].Status = StatusReady
         /\ sessions[th[t].id].ID = th[t].id
         /\ files[th[t].id].ID = th[t].id
         /\ sessions[th[t].id].Branch = th[t].session.Branch
         /\ files[th[t].id].Branch = th[t].session.Branch
    /\ (Returned(t, "GetOutput") /\ th[t].session # NoSession
        /\ th[t].session.Status = StatusPaused) =>
         /\ th[t].ret = "session is paused"
         /\ th[t].calls = <<>>

\* ---- C12
ProxyOps == {"AttachSession", "SendInput", "GetOutput"}

\* C12: AttachSession, SendInput and GetOutput call the Process Backend
\* only for a session they found Ready or Running; for a session they
\* found Loading or Paused they return an error and have made no call.
C12_ProxyRequiresReadyOrRunning ==
  \A t \in Callers :
    (th[t].op \in ProxyOps /\ th[t].session # NoSession) =>
      /\ (th[t].calls # <<>> \/ th[t].pc \in {"a_tmux", "i_tmux", "o_tmux"}) =>
           ReadyOrRunning(th[t].session.Status)
      /\ (th[t].pc = "done" /\ th[t].session.Status \in {StatusLoading, StatusPaused}) =>
           /\ th[t].ret # "ok"
           /\ th[t].calls = <<>>

\* ---- C13
\* C13: a call of UpdateSessionStatus (the last step of PauseSession and of
\* StartSession/ResumeSession) that returns success leaves the new status
\* in the cache entry and in the persisted record, one that returns an
\* error leaves both as they were, and either way the two statuses are
\* equal afterwards.
C13_UpdateStatusAtomic ==
  [][\A t \in Callers :
       (th[t].pc \in {"p_update", "s_update"} /\ th'[t].pc = "done") =>
         LET id == th[t].id
             status == IF th[t].pc = "p_update" THEN StatusPaused ELSE StatusReady
         IN  /\ th'[t].ret = "ok" =>
                  /\ sessions'[id].Status = status
                  /\ files'[id].Status = status
             /\ th'[t].ret # "ok" =>
                  /\ sessions' = sessions
                  /\ files' = files
             /\ (id \in DOMAIN sessions' /\ id \in DOMAIN files') =>
                  sessions'[id].Status = files'[id].Status]_vars

\* ---- C14
StartTmuxFailed(t) ==
  /\ th[t].pc = "done"
  /\ th[t].op \in {"StartSession", "ResumeSession"}
  /\ th[t].ret = "failed to recreate tmux session"

\* C14: a StartSession/ResumeSession that fails in tmuxService.CreateSession
\* after it recreated the worktree asks the Workspace Service to remove the
\* worktree again before it returns, and when that removal succeeds the
\* session is Paused with no worktree and no tmux session.
C14_StartRollsBackWorktree ==
  \A t \in Callers : StartTmuxFailed(t) =>
    LET c == th[t]
        n == Len(c.calls)
    IN  /\ c.calls[n].svc = "git.RemoveWorktree"
        /\ c.calls[n].ok =>
             /\ c.session.Path \notin worktrees
             /\ c.id \notin tmuxSessions

\* ---- C15
\* C15: the ID generateSessionID hands to a CreateSession call is one that
\* no earlier CreateSession call of this orchestrator was given.
C15_AllocatedIDIsFresh ==
  [][\A t \in Callers :
       (th[t].pc = "c_isrepo" /\ th'[t].pc = "c_branch") =>
         th'[t].id \notin known]_vars

\* ---- C16
SessionIDs == {generateSessionID(ti, t) : ti \in Titles \ {""}, t \in Clock}

\* C16: the step in which CreateSession returns success leaves the session
\* cached and persisted with Status = Loading, and a cached session that
\* is Loading eventually is Ready, unless it is paused or stopped first.
C16_LoadingThenReady ==
  /\ [][\A t \in Callers :
          (th[t].pc = "c_cache" /\ th'[t].pc = "done") =>
            /\ th'[t].ret = "ok"
            /\ th[t].session.Status = StatusLoading
            /\ sessions'[th[t].id].Status = StatusLoading
            /\ files'[th[t].id].Status = StatusLoading]_vars
  /\ \A id \in SessionIDs :
       (id \in DOMAIN sessions /\ sessions[id].Status = StatusLoading)
         ~> \/ id \notin DOMAIN sessions
            \/ sessions[id].Status = StatusReady
            \/ sessions[id].Status = StatusPaused

C16_Witness ==
  \E t \in Callers :
    /\ Returned(t, "CreateSession")
    /\ th[t].ret = "ok"
    /\ timers = EmptyBag
    /\ sessions[th[t].id].Status = StatusReady
    /\ files[th[t].id].Status = StatusReady

\* ---- C17
ValidationErrors == {"session title is required", "session path is required"}

C18_ListReturnsCachedRecords ==
  Quiescent =>
    \A id \in DOMAIN sessions :
      {r \in ListSessions : r.ID = id} = {sessions[id]}

\* ---- C19
\* the external processes started by Execute and ExecuteStreaming calls
\* that are running
RunningProcesses ==
  Cardinality({p \in ExecCallers : ecall[p].pc = "wait"}) + streams.running

\* C19: at most MaxConcurrent external processes started by Execute and
\* ExecuteStreaming calls are running at any instant, however many
\* callers there are.
C19_AtMostMaxConcurrentProcesses ==
  /\ RunningProcesses <= MaxConcurrent
  /\ sem <= MaxConcurrent

C19_Witness ==
  /\ RunningProcesses = MaxConcurrent
  /\ streams.running > 0
  /\ \E p \in ExecCallers : ecall[p].pc = "wait"
  /\ \E p \in ExecCallers : ecall[p].pc = "idle"

\* ---- C20
\* C20: an Execute of a program that always exits 1, with RetryCount
\* retries on exit code 1, has run the program RetryCount + 1 times when it
\* returns its Result, and the Result's ExitCode is 1.
C20_RetriesRunProgramAgain ==
  \A p \in ExecCallers :
    (/\ ecall[p].pc = "done"
     /\ ecall[p].kind = "Execute"
     /\ ecall[p].ret = "result"
     /\ opts.RetryCount = RetryCount
     /\ ~ecall[p].timedOut
     /\ ecall[p].code = 1) =>
      /\ ecall[p].runs = RetryCount + 1
      /\ ecall[p].exitCode = 1

\* ---- C21
ExecuteCalls == {p \in ExecCallers : ecall[p].kind = "Execute" /\ ecall[p].log # <<>>}

C22_ResultOfLastAttemptOnly ==
  \A p \in ExecuteCalls :
    (ecall[p].pc = "done" /\ ecall[p].ret = "result") =>
      /\ ecall[p].exitCode = ecall[p].log[Len(ecall[p].log)]
      /\ ecall[p].stdout \subseteq {Len(ecall[p].log) - 1}

\* ---- C23
\* C23: a slot of the semaphore is never held for good: while a slot is
\* taken by the ExecuteStreaming call, whose consumer either goes on
\* receiving or has cancelled the context, some step of the call, of its
\* goroutines, of its process or of its consumer can still be taken.
C23_SlotNeverHeldForGood ==
  sem > 0 => ENABLED NextStream

\* ---- C24
\* C24: an Execute call that returns the context's error from the wait for
\* a slot has not started the program, and neither that return nor the
\* caller's taking of it changes the number of slots taken.
C24_CancelledWaitTakesNoSlot ==
  [][\A p \in ExecCallers :
       /\ (/\ ecall[p].pc = "idle"
           /\ ecall'[p].pc = "done"
           /\ ecall'[p].kind = "Execute"
           /\ ecall'[p].ret = "ctx.Err")
          => /\ sem' = sem
             /\ streams' = streams
             /\ ecall'[p].runs = 0
             /\ ~ecall'[p].started
       /\ (/\ ecall[p].pc = "done"
           /\ ecall[p].kind = "Execute"
           /\ ecall[p].ret = "ctx.Err"
           /\ ecall'[p] # ecall[p])
          => /\ sem' = sem
             /\ ecall[p].runs = 0
             /\ ecall'[p].pc = "idle"]_vars

\* an Execute call has given up while every slot was taken by other calls
C24_Witness ==
  \E p \in ExecCallers :
    /\ ecall[p].pc = "done"
    /\ ecall[p].kind = "Execute"
    /\ ecall[p].ret = "ctx.Err"
    /\ sem = MaxConcurrent
    /\ RunningProcesses = MaxConcurrent

\* ---- C25
\* C25: on a stream that ExecuteStreaming returned, the exit event enters
\* the channel only when both readers have ended, so after every chunk;
\* nothing follows it in the channel; the consumer is handed at most one
\* exit event and nothing after it; and the channel is closed only after
\* the exit event, so a consumer that finds it closed has received exactly
\* one exit event.
C25_OneExitEventLast ==
  /\ \A i \in 1..Len(ch) :
       ch[i] = "exit" => /\ i = Len(ch)
                         /\ sg.rd["stdout"] = "done"
                         /\ sg.rd["stderr"] = "done"
                         /\ sg.exits = 0
  /\ sg.exits <= 1
  /\ ~sg.afterExit
  /\ sg.closed => (sg.exits = 1 \/ (ch # <<>> /\ ch[Len(ch)] = "exit"))
  /\ sg.closedSeen => sg.exits = 1

\* the consumer has received chunks, then the exit event, then found the
\* channel closed
C25_Witness ==
  /\ sg.consumer = "reading"
  /\ sg.chunks
  /\ sg.exits = 1
  /\ sg.closedSeen

\* ---- C26
\* the errors that tell a caller that the deadline has expired
TimeoutErrors == {"context deadline exceeded", "TimeoutError"}

\* C26: an Execute call whose process was killed because the deadline
\* expired has no process left when it returns, and it reports a timeout
\* error to its caller, as the error it returns or as the Error of its Result.
C26_TimeoutIsReported ==
  \A p \in ExecCallers :
    (ecall[p].pc = "done" /\ ecall[p].kind = "Execute" /\ ecall[p].timedOut)
    => \/ ecall[p].ret \in TimeoutErrors
       \/ ecall[p].ret = "result" /\ ecall[p].err \in TimeoutErrors

\* ---- C27
\* C27: Start adds the one handle it returns to the process table and
\* nothing else adds one; an entry leaves the table only in a Wait on its
\* handle; and ListProcesses lists every handle that was started and
\* never waited, killed or not.
C27_OnlyWaitRemoves ==
  [][/\ \A h \in DOMAIN runningProcs' \ DOMAIN runningProcs :
          /\ tret'.op = "Start" /\ tret'.h = h /\ tret'.err = "nil"
          /\ DOMAIN runningProcs' = DOMAIN runningProcs \cup {h}
     /\ \A h \in Handles :
          (handles[h].proc = "none" /\ handles'[h].proc # "none")
          => /\ tret'.op = "Start" /\ tret'.h = h
             /\ h \notin DOMAIN runningProcs
             /\ DOMAIN runningProcs' = DOMAIN runningProcs \cup {h}
     /\ \A h \in DOMAIN runningProcs \ DOMAIN runningProcs' :
          tret'.op = "Wait" /\ tret'.h = h
     /\ tret'.op = "ListProcesses"
          => \A h \in Handles :
               (handles'[h].proc # "none" /\ ~handles'[h].waited)
               => \E e \in tret'.val : e[1] = h]_vars

\* ListProcesses has listed a handle that was killed and never waited
C27_Witness ==
  /\ tret.op = "ListProcesses"
  /\ \E h \in Handles :
       /\ handles[h].killed
       /\ ~handles[h].waited
       /\ <<h, "exited">> \in tret.val

\* ---- C28
\* C28: while the pane of a session stays as it is, the Daemon submits at
\* most one newline to that session, however many ticks go by.
C28_OneNewlinePerPrompt ==
  \A id \in DaemonIDs : newlines[id] <= 1

\* ---- C29
\* C29: no output and no error that a session returns ends the Daemon's
\* goroutine: the Daemon never crashes.
C29_DaemonNeverCrashes ==
  dm.pc # "crashed"

\* ---- C30
\* C30: whenever processSession returns for a session that the orchestrator
\* still holds, without a failed call, the record in d.sessions is the
\* orchestrator's current one: it is the cached object itself or carries
\* the status the orchestrator has for the session.
C30_RereadAfterProcessing ==
  [][\A id \in DaemonIDs :
       (/\ dm.queue # <<>>
        /\ Head(dm.queue) = id
        /\ dm'.pc = "next"
        /\ dm'.queue = Tail(dm.queue)
        /\ ~dm'.failed
        /\ id \in DOMAIN sessions')
       => \/ ~dm'.sessions[id].own
          \/ dm'.sessions[id].Status = sessions'[id].Status]_vars

C40_StopChClosedOnce ==
  dm.run # "crashed" /\ dm.stop # "crashed"

\* ---- C32
\* C32: when UpdateTitle(id, title) has returned success and the session
\* is still there, the cached record and the persisted record both carry
\* the new Title: GetSession and ListSessions report that Title.
C32_TitleCachedAndPersisted ==
  \A t \in Callers :
    (/\ Returned(t, "UpdateTitle")
     /\ th[t].ret = "ok"
     /\ th[t].id \in DOMAIN sessions
     /\ th[t].id \in DOMAIN files
     /\ \A u \in Callers \ {t} : th[u].pc = "idle")
    => /\ sessions[th[t].id].Title = th[t].branch
       /\ \A x \in ListSessions : x.ID = th[t].id => x.Title = th[t].branch

\* ---- C33
\* no external call of either caller failed: none of the git and tmux
\* calls, nor the storage.Get of GetSession, nor storage.UpdateStatus
NoCallFailed ==
  \A t \in Callers :
    /\ \A i \in 1..Len(th[t].calls) : th[t].calls[i].ok
    /\ th[t].ret \notin {"session not found", "storage update failed"}

\* one PauseSession and one ResumeSession, both returned, and no other
\* call has run
PauseAndResumeReturned ==
  \E t, u \in Callers :
    /\ t # u
    /\ Returned(t, "PauseSession")
    /\ Returned(u, "ResumeSession")
    /\ \A v \in Callers \ {t, u} : th[v].pc = "idle"

\* the Status of the session, cached and stored, against its resources
StatusAgrees(status) ==
  /\ status = StatusPaused =>
       (LifeSession(status).Path \notin worktrees /\ LifeID \notin tmuxSessions)
  /\ status = StatusReady =>
       (LifeSession(status).Path \in worktrees /\ LifeID \in tmuxSessions)

PauseResumeDisagree ==
  /\ PauseAndResumeReturned
  /\ NoCallFailed
  /\ ~ (/\ LifeID \in DOMAIN sessions
        /\ LifeID \in DOMAIN files
        /\ StatusAgrees(sessions[LifeID].Status)
        /\ StatusAgrees(files[LifeID].Status))

\* some run of at most n steps from here ends in such a state, n = 0..10
SomeRunDisagrees0 == PauseResumeDisagree
SomeRunDisagrees1 == PauseResumeDisagree \/ ENABLED (NextLife /\ SomeRunDisagrees0')
SomeRunDisagrees2 == PauseResumeDisagree \/ ENABLED (NextLife /\ SomeRunDisagrees1')
SomeRunDisagrees3 == PauseResumeDisagree \/ ENABLED (NextLife /\ SomeRunDisagrees2')
SomeRunDisagrees4 == PauseResumeDisagree \/ ENABLED (NextLife /\ SomeRunDisagrees3')
SomeRunDisagrees5 == PauseResumeDisagree \/ ENABLED (NextLife /\ SomeRunDisagrees4')
SomeRunDisagrees6 == PauseResumeDisagree \/ ENABLED (NextLife /\ SomeRunDisagrees5')
SomeRunDisagrees7 == PauseResumeDisagree \/ ENABLED (NextLife /\ SomeRunDisagrees6')
SomeRunDisagrees8 == PauseResumeDisagree \/ ENABLED (NextLife /\ SomeRunDisagrees7')
SomeRunDisagrees9 == PauseResumeDisagree \/ ENABLED (NextLife /\ SomeRunDisagrees8')
SomeRunDisagrees10 == PauseResumeDisagree \/ ENABLED (NextLife /\ SomeRunDisagrees9')

C36_StoppedLeavesNothing ==
  \A t \in Callers :
    (/\ Returned(t, "StopSession")
     /\ th[t].ret = "ok"
     /\ \A i \in 1..Len(th[t].calls) : th[t].calls[i].ok
     /\ \A u \in Callers : th[u].pc = "done")
    => /\ LifeSession(StatusReady).Path \notin worktrees
       /\ LifeID \notin tmuxSessions
       /\ LifeID \notin DOMAIN sessions
       /\ LifeID \notin DOMAIN files

\* ---- C37
\* C37: every tmux command issued for the logical name n targets
\* sanitizeTmuxName(n), the prefix applied once; a CreateSession(n) whose
\* new-session command succeeded returns that session; and the SendKeys
\* and KillSession of the orchestrator for the session just created
\* target it too.
C37_PrefixAppliedOnce ==
  \A t \in Callers :
    th[t].op = "tmux.CreateSession" =>
      /\ \A i \in 1..Len(th[t].calls) : th[t].calls[i].arg = sanitizeTmuxName(th[t].id)
      /\ (/\ th[t].pc \notin {"tm_new", "tm_get"}
          /\ \E i \in 1..Len(th[t].calls) :
               th[t].calls[i].svc = "new-session" /\ th[t].calls[i].ok)
         => /\ th[t].ret = "ok"
            /\ th[t].session = [Name |-> sanitizeTmuxName(th[t].id)]

\* ---- C38
\* C38: an operation of the git adapter that has returned did not return
\* success if one of its git commands (other than the rev-parse --verify
\* probe) ended with a non-zero exit code, and CreateWorktree took the
\* branch as existing only if rev-parse --verify exited 0.
C38_GitFailuresReported ==
  \A t \in Callers :
    (th[t].pc = "done" /\ th[t].op \in {"git.CreateWorktree", "git.RemoveWorktree"}) =>
      \A i \in 1..Len(th[t].calls) :
        LET c == th[t].calls[i]
        IN  IF c.svc = "rev-parse --verify"
            THEN th[t].branch = "existing" => c.ok
            ELSE (c.arg.err = "nil" /\ c.arg.exit # 0) => th[t].ret # "ok"

\* ---- C39
\* C39: no operation of the repository is at an r.mu.Lock() or
\* r.mu.RLock() while it holds r.mu itself; so an operation that is
\* alone always goes on until it returns.
C39_NoLockHeldTwice ==
  \A t \in Callers :
    th[t].pc \in {"da_lock", "rs_lock", "upd_lock", "get_rlock"} => RepoHolds(t) = "none"

\* ---- C34
\* C34: no operation holds the session cache lock and the process table
\* lock together, none is at a Lock or RLock of the one while holding the
\* other, and the operations in progress never all wait for a lock.
C34_LocksNeverNested ==
  /\ \A t \in Callers :
       /\ ~ (LockHeld(t, "o.mu") # "none" /\ LockHeld(t, "procMutex") # "none")
       /\ (th[t].pc = "lk_run" /\ LockNext(t).do \in {"Lock", "RLock"}) =>
            \A mu \in {"o.mu", "procMutex"} \ {LockNext(t).mu} : LockHeld(t, mu) = "none"
  /\ (\E t \in Callers : th[t].pc = "lk_run") => \E t \in Callers : ENABLED LockStep(t)

\* one operation holds the session cache lock while another holds the
\* process table lock
C34_Witness ==
  \E t, u \in Callers :
    /\ LockHeld(t, "o.mu") = "write"
    /\ LockHeld(u, "procMutex") = "write"

\* ---- C35
\* caller t is in the rollback of a CreateSession whose storage.Create
\* failed and the resource it created is gone already, while caller u is
\* resuming the stored session of the same ID
RollbackAfterLoss(t, u) ==
  /\ t # u
  /\ th[t].op = "CreateSession"
  /\ th[u].op \in {"StartSession", "ResumeSession"}
  /\ th[u].id = th[t].id
  /\ th[t].id \in DOMAIN files

\* C35: the rollback of a failing CreateSession neither kills a tmux
\* session nor removes a worktree that this call did not create. Stated
\* where the call's own tmux session (worktree) has been taken away by
\* another call: it cannot happen that the resume of the stored session
\* recreates the tmux session (worktree) and the rollback then kills
\* (removes) the recreated one.
C35_RollbackTouchesOwnOnly ==
  \A t, u \in Callers :
    /\ (/\ RollbackAfterLoss(t, u)
        /\ th[t].pc = "c_undo_tmux"
        /\ th[t].id \notin tmuxSessions)
       => ~ENABLED (/\ StartTmux(u)
                    /\ th[t].id \in tmuxSessions'
                    /\ (ENABLED (/\ CreateUndoTmux(t)
                                 /\ th[t].id \notin tmuxSessions'))')
    /\ (/\ RollbackAfterLoss(t, u)
        /\ th[t].pc = "c_undo_both"
        /\ th[t].wpath \notin worktrees)
       => ~ENABLED (/\ StartWorktree(u)
                    /\ th[t].wpath \in worktrees'
                    /\ (ENABLED (/\ CreateUndoBoth(t)
                                 /\ th[t].wpath \notin worktrees'))')
====
